---- MODULE Spec2Model ----
(***************************************************************************)
(* A model of the line data model (src/src/row.rs) and of the incremental  *)
(* Rust highlighter (src/src/syntax/rust.rs) of the kilo editor.           *)
(*                                                                         *)
(* A char is a string: an ASCII char is the one-character string, a        *)
(* non-ASCII char is named by its code point.  A text (Rust String) is a   *)
(* sequence of chars; byte offsets are computed from the UTF-8 lengths.    *)
(***************************************************************************)
EXTENDS Integers, Sequences, FiniteSets, TLC

VARIABLES
    rows,       \* highlighter: the buffer's rows, [string, hl_context, faces, revised]
    pre,        \* highlighter: the rows as they were when the last highlight call began
    hk,         \* highlighter: index of the first row of the slice of the last call
    hlen,       \* highlighter: the value the last highlight call returned
    hop,        \* highlighter: the last operation, "load" | "edit" | "again"
    tk_prev,    \* tokenizer: the kind of the last token of the row before
    tk_in,      \* tokenizer: hl_context the current row was tokenized under
    tk_text,    \* tokenizer: text of the current row
    tk_tokens,  \* tokenizer: the tokens Tokens yields for it
    tk_out,     \* tokenizer: the context highlight_row returns for it
    row,        \* row: the Row under edit, [string, render, cx_to_rx, rx_to_cx, cx_to_idx, rx_to_idx]
    rop,        \* row: the last Row operation
    ret,        \* row: the String the last split_off returned
    draw_coloff, \* draw: the coloff of the last Row::draw call
    draw_width, \* draw: the width of the last Row::draw call
    canvas,     \* draw: what the last Row::draw call wrote, markers and chars of render
    draw_fault, \* draw: whether the last Row::draw call panicked
    filename,   \* detect: the file name of the last Syntax::detect call, [some, s]
    syntax,     \* detect: the highlighter it selected
    state,      \* editor: Editor.state
    buffer,     \* editor: Editor.buffer, [modified, filename]
    minibuffer, \* editor: Editor.minibuffer, [size_w, offset_x, cursor_x, prompt_len, row]
    key,        \* editor: the key of the last process_keypress call
    prev_state, \* editor: Editor.state when that call began
    pc,         \* editor: the position of looop
    panicked    \* editor: whether unreachable!() was executed

hlvars == <<rows, pre, hk, hlen, hop>>
tkvars == <<tk_prev, tk_in, tk_text, tk_tokens, tk_out>>
rowvars == <<row, rop, ret>>
drawvars == <<draw_coloff, draw_width, canvas, draw_fault>>
detvars == <<filename, syntax>>
edvars == <<state, buffer, minibuffer, key, prev_state, pc, panicked>>
auxvars == <<drawvars, detvars, edvars>>
vars == <<rows, pre, hk, hlen, hop, tk_prev, tk_in, tk_text, tk_tokens, tk_out, row, rop, ret,
          draw_coloff, draw_width, canvas, draw_fault, filename, syntax,
          state, buffer, minibuffer, key, prev_state, pc, panicked>>

(***************************************************************************)
(* Characters                                                              *)
(***************************************************************************)
WIDE == "U+65E5"    \* a CJK ideograph: 3 bytes of UTF-8, 2 display columns
ZW == "U+0301"      \* a combining accent: 2 bytes of UTF-8, 0 display columns
BACKTICK == "U+0060" \* the ASCII grave accent, which a TLA+ string cannot hold
EOF == "<none>"     \* what peek() yields at the end of the iterator (None)

len_utf8(ch) == CASE ch = WIDE -> 3 [] ch = ZW -> 2 [] OTHER -> 1

\* byte offset of the n-th char (0-based) of text, as char_indices() reports
\* it: the number of bytes of the n chars before it
byte_offset(text, n) ==
    Cardinality({cb \in (1..n) \X (1..4) : cb[2] <= len_utf8(text[cb[1]])})

str_len(text) == byte_offset(text, Len(text))

\* the bytes after the first of the chars of text at the positions of the set
more_bytes(text, at) ==
    Cardinality({cb \in at \X (2..4) : cb[2] <= len_utf8(text[cb[1]])})

char_indices(text) ==
    LET multi == {i \in 1..Len(text) : len_utf8(text[i]) > 1}
    IN [i \in 1..Len(text) |->
           [idx |-> (i - 1) + more_bytes(text, {j \in multi : j < i}), ch |-> text[i]]]

AsciiWhitespace == {" ", "\t", "\n", "\r", "\f"}
AsciiPunctuation ==
    {"!", "\"", "#", "$", "%", "&", "'", "(", ")", "*", "+", ",", "-", ".", "/",
     ":", ";", "<", "=", ">", "?", "@", "[", "\\", "]", "^", "_", BACKTICK, "{", "|",
     "}", "~"}
AsciiUppercase ==
    {"A", "B", "C", "D", "E", "F", "G", "H", "I", "J", "K", "L", "M", "N", "O",
     "P", "Q", "R", "S", "T", "U", "V", "W", "X", "Y", "Z"}

is_ascii_whitespace(ch) == ch \in AsciiWhitespace

is_delim(ch) == is_ascii_whitespace(ch) \/ (ch # "_" /\ ch \in AsciiPunctuation)

RECURSIVE Concat(_)
\* the String made of a sequence of chars
Concat(s) == IF s = <<>> THEN "" ELSE Head(s) \o Concat(Tail(s))

\* str::repeat
Repeat(s, n) == [i \in 1..(n * Len(s)) |-> s[((i - 1) % Len(s)) + 1]]

(***************************************************************************)
(* Lexical contexts (HlContext, a u32)                                     *)
(***************************************************************************)
UNDEFINED == 0
NORMAL == 1
IN_ATTRIBUTE == 2
IN_STRING == 4
IN_RAW_STRING == 65280
IN_COMMENT == 16711680
U8 == 256           \* 2^8, the number of values of a u8

\* 2^(mask.trailing_zeros()) for the two masks that are shifted
Shift(mask) == IF mask = IN_RAW_STRING THEN 256 ELSE 65536

\* hl_context & mask != 0, for the masks above
Masked(hl_context, mask) ==
    CASE mask = IN_ATTRIBUTE -> (hl_context \div 2) % 2 = 1
      [] mask = IN_STRING -> (hl_context \div 4) % 2 = 1
      [] mask = IN_RAW_STRING -> (hl_context \div 256) % 256 # 0
      [] mask = IN_COMMENT -> (hl_context \div 65536) % 256 # 0

decode_context(hl_context) ==
    IF Masked(hl_context, IN_ATTRIBUTE) THEN <<"#", "[">>
    ELSE IF Masked(hl_context, IN_STRING) THEN <<"\"">>
    ELSE IF Masked(hl_context, IN_RAW_STRING)
         THEN <<"r">> \o Repeat(<<"#">>, (hl_context \div Shift(IN_RAW_STRING)) - 1) \o <<"\"">>
    ELSE IF Masked(hl_context, IN_COMMENT)
         THEN Repeat(<<"/", "*">>, hl_context \div Shift(IN_COMMENT))
    ELSE <<>>

\* a TokenKind: the variant, and the fields of the variants that carry them
Kind(k) == [k |-> k, open |-> FALSE, n |-> 0]
KindOpen(k, open, n) == [k |-> k, open |-> open, n |-> n]
NoToken == Kind("None")

encode_context(token_kind) ==
    IF token_kind.k = "Attribute" /\ token_kind.open THEN IN_ATTRIBUTE
    ELSE IF token_kind.k = "StrLit" /\ token_kind.open THEN IN_STRING
    ELSE IF token_kind.k = "RawStrLit" /\ token_kind.open
         THEN (token_kind.n + 1) * Shift(IN_RAW_STRING)
    ELSE IF token_kind.k = "BlockComment" /\ token_kind.open
         THEN token_kind.n * Shift(IN_COMMENT)
    ELSE NORMAL

\* Tokens::from on the prefix and the text joined into one string: the
\* offsets of the text are counted from the start of the prefix
Tokens_from_joined(text, context) ==
    [text |-> text, chars |-> char_indices(context \o text)]

(***************************************************************************)
(* Tokens: the scanner over context.char_indices().chain(text.char_indices()) *)
(* A scanner position p is the 1-based index of the item next() would      *)
(* yield; every scanning method returns the kind it found and the position *)
(* it left the iterator at.                                                *)
(***************************************************************************)
Tokens_from(text, context) ==
    [text |-> text, chars |-> char_indices(context) \o char_indices(text)]

\* the char peek() sees at position p (EOF for None)
ChAt(cs, p) == IF p <= Len(cs) THEN cs[p].ch ELSE EOF

Ret(kind, p) == [kind |-> kind, p |-> p]

RECURSIVE Find(_, _, _)
\* Iterator::find: the position of the first item at or after p whose char
\* is in the set, else Len(cs) + 1
Find(cs, p, set) ==
    IF p > Len(cs) \/ cs[p].ch \in set THEN p ELSE Find(cs, p + 1, set)

attribute(cs, p) ==
    LET q == Find(cs, p, {"]"})
    IN IF q <= Len(cs) THEN Ret(KindOpen("Attribute", FALSE, 0), q + 1)
       ELSE Ret(KindOpen("Attribute", TRUE, 0), q)

line_comment(cs, p) == Ret(Kind("LineComment"), Len(cs) + 1)

\* the number of openers /* that follow one another from p on
OpenersAt(cs, p) ==
    LET ends == {k \in 0..Len(cs) : ~(ChAt(cs, p + 2 * k) = "/" /\ ChAt(cs, p + 2 * k + 1) = "*")}
    IN CHOOSE k \in ends : \A j \in ends : k <= j

RECURSIVE block_comment_loop(_, _, _)

\* block_comment with comments that do not nest: an opener inside a comment
\* is not counted
block_comment_loop_flat(cs, p, depth) ==
    IF p > Len(cs) THEN Ret(KindOpen("BlockComment", TRUE, depth), p)
    ELSE IF cs[p].ch = "*" THEN
        IF ChAt(cs, p + 1) = "/"
        THEN IF (depth + U8 - 1) % U8 = 0
             THEN Ret(KindOpen("BlockComment", FALSE, 0), p + 2)
             ELSE block_comment_loop(cs, p + 2, (depth + U8 - 1) % U8)
        ELSE block_comment_loop(cs, p + 1, depth)
    ELSE block_comment_loop(cs, p + 1, depth)

\* the loop of block_comment; the iterations over openers that follow one
\* another are taken together, each adds 1 to depth
block_comment_loop(cs, p, depth) ==
    IF p > Len(cs) THEN Ret(KindOpen("BlockComment", TRUE, depth), p)
    ELSE IF cs[p].ch = "/" THEN
        IF ChAt(cs, p + 1) = "*"
        THEN block_comment_loop(cs, p + 2 * OpenersAt(cs, p),
                                (depth + OpenersAt(cs, p)) % U8)
        ELSE block_comment_loop(cs, p + 1, depth)
    ELSE IF cs[p].ch = "*" THEN
        IF ChAt(cs, p + 1) = "/"
        THEN IF (depth + U8 - 1) % U8 = 0
             THEN Ret(KindOpen("BlockComment", FALSE, 0), p + 2)
             ELSE block_comment_loop(cs, p + 2, (depth + U8 - 1) % U8)
        ELSE block_comment_loop(cs, p + 1, depth)
    ELSE block_comment_loop(cs, p + 1, depth)

block_comment(cs, p) == block_comment_loop(cs, p + 1, 1)

RECURSIVE char_lit(_, _)
char_lit(cs, p) ==
    IF p > Len(cs) THEN Ret(Kind("CharLit"), p)
    ELSE IF cs[p].ch = "'" THEN Ret(Kind("CharLit"), p + 1)
    ELSE IF cs[p].ch = "\\" THEN char_lit(cs, p + 2)
    ELSE char_lit(cs, p + 1)

RECURSIVE char_lit_or_lifetime_loop(_, _)
char_lit_or_lifetime_loop(cs, p) ==
    IF ChAt(cs, p) = "'" THEN Ret(Kind("CharLit"), p + 1)
    ELSE IF p <= Len(cs) /\ ~is_delim(cs[p].ch) THEN char_lit_or_lifetime_loop(cs, p + 1)
    ELSE Ret(Kind("Lifetime"), p)

char_lit_or_lifetime(cs, p) == char_lit_or_lifetime_loop(cs, p + 1)

RECURSIVE str_lit(_, _)
str_lit(cs, p) ==
    IF p > Len(cs) THEN Ret(KindOpen("StrLit", TRUE, 0), p)
    ELSE IF cs[p].ch = "\"" THEN Ret(KindOpen("StrLit", FALSE, 0), p + 1)
    ELSE IF cs[p].ch = "\\" THEN str_lit(cs, p + 2)
    ELSE str_lit(cs, p + 1)

\* the number of '#' chars the `while let Some(&(_, '#')) = peek()` loops
\* consume from p on, at most max of them: the first k at which the loop ends
CountHashes(cs, p, max) ==
    LET ends == {k \in 0..max : k = max \/ ChAt(cs, p + k) # "#"}
    IN CHOOSE k \in ends : \A j \in ends : k <= j

RECURSIVE raw_str_lit_loop(_, _, _)

\* raw_str_lit closing at a quote followed by fewer hashes than opened it
raw_str_lit_loop_any_quote(cs, p, n_hashes) ==
    IF p > Len(cs) THEN Ret(KindOpen("RawStrLit", TRUE, n_hashes), p)
    ELSE IF cs[p].ch = "\"" THEN
        Ret(KindOpen("RawStrLit", FALSE, n_hashes), p + 1 + CountHashes(cs, p + 1, n_hashes))
    ELSE raw_str_lit_loop(cs, p + 1, n_hashes)

raw_str_lit_loop(cs, p, n_hashes) ==
    IF p > Len(cs) THEN Ret(KindOpen("RawStrLit", TRUE, n_hashes), p)
    ELSE IF cs[p].ch = "\"" THEN
        LET close_hashes == CountHashes(cs, p + 1, n_hashes)
        IN IF close_hashes = n_hashes
           THEN Ret(KindOpen("RawStrLit", FALSE, n_hashes), p + 1 + close_hashes)
           ELSE raw_str_lit_loop(cs, p + 1 + close_hashes, n_hashes)
    ELSE raw_str_lit_loop(cs, p + 1, n_hashes)

raw_str_lit(cs, p) ==
    LET counted == CountHashes(cs, p, Len(cs))
        n_hashes == counted % U8
    IN IF ChAt(cs, p + counted) = "\""
       THEN raw_str_lit_loop(cs, p + counted + 1, n_hashes)
       ELSE Ret(Kind("Punct"), p + counted)

\* the position after the chars that are not delimiters, from p on
NotDelimEnd(cs, p) == Find(cs, p, AsciiWhitespace \cup (AsciiPunctuation \ {"_"}))

raw_ident(cs, p) == Ret(Kind("RawIdent"), NotDelimEnd(cs, p + 1))

upper_ident(cs, p) == Ret(Kind("UpperIdent"), NotDelimEnd(cs, p))

Keywords ==
    {"as", "async", "await", "box", "break", "continue", "crate", "do", "dyn",
     "else", "enum", "extern", "false", "if", "impl", "in", "loop", "match",
     "move", "priv", "pub", "ref", "return", "self", "struct", "super", "trait",
     "true", "try", "type", "use", "virtual", "where", "while", "yield"}
PrimitiveTypes ==
    {"bool", "char", "f32", "f64", "i8", "i16", "i32", "i64", "i128", "isize",
     "str", "u8", "u16", "u32", "u64", "u128", "usize"}

\* &text[start..end]: the chars of text at the byte offsets start..end
Slice(text, start, end) ==
    Concat(SelectSeq([i \in 1..Len(text) |->
                         IF start <= byte_offset(text, i - 1) /\ byte_offset(text, i - 1) < end
                         THEN text[i] ELSE ""],
                     LAMBDA c : c # ""))

\* the match of ident on the word &text[start..end]
ident_kind(word) ==
    CASE word = "const" -> Kind("Const")
      [] word = "fn" -> Kind("Fn")
      [] word = "for" -> Kind("For")
      [] word = "let" -> Kind("Let")
      [] word = "mod" -> Kind("Mod")
      [] word = "mut" -> Kind("Mut")
      [] word = "static" -> Kind("Static")
      [] word \in Keywords -> Kind("Keyword")
      [] word \in PrimitiveTypes -> Kind("PrimitiveType")
      [] OTHER -> Kind("Ident")

\* ident once its loop has stopped at position q, the first delimiter or the end
ident_at(t, start, q) ==
    Ret(ident_kind(Slice(t.text, start,
                         IF q <= Len(t.chars) THEN t.chars[q].idx ELSE str_len(t.text))),
        q)

ident(t, start, p) == ident_at(t, start, NotDelimEnd(t.chars, p))

\* the match on the first char of a token: start and ch are what find()
\* returned, p the position after that char
scan(t, start, ch, p) ==
    LET cs == t.chars
        peek == ChAt(cs, p)
        nth1 == ChAt(cs, p + 1)
    IN CASE ch = "#" ->
              IF peek = "[" THEN attribute(cs, p)
              ELSE IF peek = "!" /\ nth1 = "[" THEN attribute(cs, p)
              ELSE Ret(Kind("Punct"), p)
         [] ch = "/" ->
              IF peek = "/" THEN line_comment(cs, p)
              ELSE IF peek = "*" THEN block_comment(cs, p)
              ELSE Ret(Kind("Punct"), p)
         [] ch = "'" ->
              IF p > Len(cs) THEN Ret(Kind("Punct"), p)
              ELSE IF is_delim(peek) THEN char_lit(cs, p)
              ELSE char_lit_or_lifetime(cs, p)
         [] ch = "\"" -> str_lit(cs, p)
         [] ch = "r" ->
              IF peek = "\"" THEN raw_str_lit(cs, p)
              ELSE IF peek = "#" THEN
                  IF p + 1 <= Len(cs) /\ ~is_delim(nth1) THEN raw_ident(cs, p)
                  ELSE raw_str_lit(cs, p)
              ELSE ident(t, start, p)
         [] ch = "b" ->
              IF peek = "'" THEN char_lit(cs, p + 1)
              ELSE IF peek = "\"" THEN str_lit(cs, p + 1)
              ELSE IF peek = "r" /\ nth1 \in {"\"", "#"} THEN raw_str_lit(cs, p + 1)
              ELSE ident(t, start, p)
         [] ch = "(" -> Ret(Kind("Paren"), p)
         [] ch = "?" -> Ret(Kind("Question"), p)
         [] ch = "!" -> IF peek = "=" THEN Ret(Kind("Punct"), p) ELSE Ret(Kind("Bang"), p)
         [] ch = ":" -> IF peek = ":" THEN Ret(Kind("ColonColon"), p + 1) ELSE Ret(Kind("Colon"), p)
         [] OTHER ->
              IF is_delim(ch) THEN Ret(Kind("Punct"), p)
              ELSE IF ch \in AsciiUppercase THEN upper_ident(cs, p)
              ELSE ident(t, start, p)

\* the Token next() builds: start is where find() stopped, r what the match
\* returned, end the offset of the char peek() sees, or text.len()
token(t, start, r) ==
    [some |-> TRUE,
     token |-> [kind |-> r.kind,
                start |-> start,
                end |-> IF r.p <= Len(t.chars) THEN t.chars[r.p].idx ELSE str_len(t.text)],
     p |-> r.p]

\* next() once find() has stopped at position f (Len + 1 for None)
next_at(t, f) ==
    IF f > Len(t.chars) THEN [some |-> FALSE, p |-> f]
    ELSE token(t, t.chars[f].idx, scan(t, t.chars[f].idx, t.chars[f].ch, f + 1))

\* Tokens::next from position p: no token, or the token and the position after it
next(t, p) ==
    next_at(t, Find(t.chars, p, {t.chars[i].ch : i \in 1..Len(t.chars)} \ AsciiWhitespace))

RECURSIVE collect(_, _)
\* the tokens the iterator yields, given what its next() returned
collect(t, r) ==
    IF ~r.some THEN <<>> ELSE <<r.token>> \o collect(t, next(t, r.p))

tokens_of(t) == collect(t, next(t, 1))

Tokens(text, context) == tokens_of(Tokens_from(text, context))

(***************************************************************************)
(* Rust::highlight_row and Rust::highlight                                 *)
(* A row of the highlighter is [string, hl_context, faces, revised]:       *)
(* faces holds one Face per byte of string; revised is 0 when the last     *)
(* highlight call did not run highlight_row on the row, and n when the row *)
(* was the n-th row that call ran it on.                                   *)
(***************************************************************************)
KeywordKinds == {"Const", "Fn", "For", "Keyword", "Let", "Mod", "Mut", "Static"}

\* the kind of the i-th token of toks, NoToken outside
KindAt(toks, i) == IF i >= 1 /\ i <= Len(toks) THEN toks[i].kind ELSE NoToken

\* the Face of the i-th token when the token after an identifier is looked at
\* before the token before it
face_of_peek_first(toks, i) ==
    LET k == toks[i].kind.k
        prev == KindAt(toks, i - 1).k
        peek == KindAt(toks, i + 1).k
    IN CASE k = "Attribute" -> "Macro"
         [] k \in {"BlockComment", "LineComment"} -> "Comment"
         [] k \in {"CharLit", "RawStrLit", "StrLit"} -> "String"
         [] k \in KeywordKinds -> "Keyword"
         [] k = "Lifetime" -> "Variable"
         [] k = "PrimitiveType" -> "Type"
         [] k = "Question" -> "Macro"
         [] k = "Bang" -> IF prev = "Ident" THEN "Macro" ELSE "Default"
         [] k = "UpperIdent" -> IF prev \in {"Const", "Static"} THEN "Variable" ELSE "Type"
         [] k \in {"Ident", "RawIdent"} ->
              CASE peek = "Bang" -> "Macro"
                [] peek = "Colon" -> "Variable"
                [] peek = "ColonColon" -> "Module"
                [] peek = "Paren" -> "Function"
                [] OTHER ->
                     CASE prev = "Fn" -> "Function"
                       [] prev \in {"For", "Let", "Mut"} -> "Variable"
                       [] prev = "Mod" -> "Module"
                       [] OTHER -> "Default"
         [] OTHER -> "Default"

\* the Face of the i-th token when every bang is taken for the bang of a macro
face_of_bang_macro(toks, i) ==
    LET k == toks[i].kind.k
        prev == KindAt(toks, i - 1).k
        peek == KindAt(toks, i + 1).k
    IN CASE k = "Attribute" -> "Macro"
         [] k \in {"BlockComment", "LineComment"} -> "Comment"
         [] k \in {"CharLit", "RawStrLit", "StrLit"} -> "String"
         [] k \in KeywordKinds -> "Keyword"
         [] k = "Lifetime" -> "Variable"
         [] k = "PrimitiveType" -> "Type"
         [] k \in {"Question", "Bang"} -> "Macro"
         [] k = "UpperIdent" -> IF prev \in {"Const", "Static"} THEN "Variable" ELSE "Type"
         [] k \in {"Ident", "RawIdent"} ->
              CASE prev = "Fn" -> "Function"
                [] prev \in {"For", "Let", "Mut"} -> "Variable"
                [] prev = "Mod" -> "Module"
                [] OTHER ->
                     CASE peek = "Bang" -> "Macro"
                       [] peek = "Colon" -> "Variable"
                       [] peek = "ColonColon" -> "Module"
                       [] peek = "Paren" -> "Function"
                       [] OTHER -> "Default"
         [] OTHER -> "Default"

\* the Face highlight_row gives the i-th token: prev_token is the token before,
\* tokens.peek() the token after
face_of(toks, i) ==
    LET k == toks[i].kind.k
        prev == KindAt(toks, i - 1).k
        peek == KindAt(toks, i + 1).k
    IN CASE k = "Attribute" -> "Macro"
         [] k \in {"BlockComment", "LineComment"} -> "Comment"
         [] k \in {"CharLit", "RawStrLit", "StrLit"} -> "String"
         [] k \in KeywordKinds -> "Keyword"
         [] k = "Lifetime" -> "Variable"
         [] k = "PrimitiveType" -> "Type"
         [] k = "Question" -> "Macro"
         [] k = "Bang" -> IF prev = "Ident" THEN "Macro" ELSE "Default"
         [] k = "UpperIdent" -> IF prev \in {"Const", "Static"} THEN "Variable" ELSE "Type"
         [] k \in {"Ident", "RawIdent"} ->
              CASE prev = "Fn" -> "Function"
                [] prev \in {"For", "Let", "Mut"} -> "Variable"
                [] prev = "Mod" -> "Module"
                [] OTHER ->
                     CASE peek = "Bang" -> "Macro"
                       [] peek = "Colon" -> "Variable"
                       [] peek = "ColonColon" -> "Module"
                       [] peek = "Paren" -> "Function"
                       [] OTHER -> "Default"
         [] OTHER -> "Default"

\* row.faces after the loop over the tokens: byte b (0-based) carries the face
\* of the last token whose span start..end holds it, Face::Default otherwise
faces_of(toks, len) ==
    [b \in 1..len |->
        LET over == {i \in 1..Len(toks) : toks[i].start <= b - 1 /\ b - 1 < toks[i].end}
        IN IF over = {} THEN "Default"
           ELSE face_of(toks, CHOOSE i \in over : \A j \in over : j <= i)]

\* highlight_row once the tokens of the row are known
highlight_tokens(r, toks) ==
    [row |-> [r EXCEPT !.faces = faces_of(toks, str_len(r.string)),
                       !.revised = 1],
     context |-> encode_context(KindAt(toks, Len(toks)))]

highlight_row(r) == highlight_tokens(r, Tokens(r.string, decode_context(r.hl_context)))

\* the number of rows of rs the call has run highlight_row on so far
Revised(rs) == Cardinality({j \in 1..Len(rs) : rs[j].revised > 0})

RECURSIVE highlight_loop(_, _, _, _), highlight_next(_, _, _, _)

\* the end of one iteration: h is what highlight_row returned for row i
highlight_next(rs, i, len, h) ==
    highlight_loop([rs EXCEPT ![i + 1] = [h.row EXCEPT !.revised = Revised(rs) + 1]],
                   i + 1, h.context, len + 1)

\* highlight with the convergence test left out: every row is processed
highlight_loop_no_break(rs, i, new_context, len) ==
    IF i >= Len(rs) THEN [rows |-> rs, len |-> len]
    ELSE highlight_next(rs, i, len,
             highlight_row([rs[i + 1] EXCEPT !.hl_context =
                 IF i = 0
                 THEN (IF rs[1].hl_context = UNDEFINED THEN NORMAL ELSE rs[1].hl_context)
                 ELSE new_context]))

\* highlight stopping at the first row that was ever highlighted, whatever
\* its context
highlight_loop_stop_highlighted(rs, i, new_context, len) ==
    IF i >= Len(rs) THEN [rows |-> rs, len |-> len]
    ELSE IF i > 0 /\ rs[i + 1].hl_context # UNDEFINED THEN [rows |-> rs, len |-> len]
    ELSE highlight_next(rs, i, len,
             highlight_row([rs[i + 1] EXCEPT !.hl_context =
                 IF i = 0
                 THEN (IF rs[1].hl_context = UNDEFINED THEN NORMAL ELSE rs[1].hl_context)
                 ELSE new_context]))

\* highlight counting the row it converged on as revised
highlight_loop_count_converged(rs, i, new_context, len) ==
    IF i >= Len(rs) THEN [rows |-> rs, len |-> len]
    ELSE IF i > 0 /\ rs[i + 1].hl_context = new_context THEN [rows |-> rs, len |-> len + 1]
    ELSE highlight_next(rs, i, len,
             highlight_row([rs[i + 1] EXCEPT !.hl_context =
                 IF i = 0
                 THEN (IF rs[1].hl_context = UNDEFINED THEN NORMAL ELSE rs[1].hl_context)
                 ELSE new_context]))

\* highlight testing row 0 for convergence like the other rows
highlight_loop_skip_first(rs, i, new_context, len) ==
    IF i >= Len(rs) THEN [rows |-> rs, len |-> len]
    ELSE IF rs[i + 1].hl_context = (IF i = 0 THEN NORMAL ELSE new_context)
         THEN [rows |-> rs, len |-> len]
    ELSE highlight_next(rs, i, len,
             highlight_row([rs[i + 1] EXCEPT !.hl_context =
                 IF i = 0
                 THEN (IF rs[1].hl_context = UNDEFINED THEN NORMAL ELSE rs[1].hl_context)
                 ELSE new_context]))

\* highlight that takes the first row of the slice for the first row of the
\* file: its context is NORMAL whatever is stored
highlight_loop_first_normal(rs, i, new_context, len) ==
    IF i >= Len(rs) THEN [rows |-> rs, len |-> len]
    ELSE IF i > 0 /\ rs[i + 1].hl_context = new_context THEN [rows |-> rs, len |-> len]
    ELSE highlight_next(rs, i, len,
             highlight_row([rs[i + 1] EXCEPT !.hl_context =
                 IF i = 0 THEN NORMAL ELSE new_context]))

\* the for loop of highlight from index i (0-based) on
highlight_loop(rs, i, new_context, len) ==
    IF i >= Len(rs) THEN [rows |-> rs, len |-> len]
    ELSE IF i > 0 /\ rs[i + 1].hl_context = new_context THEN [rows |-> rs, len |-> len]
    ELSE highlight_next(rs, i, len,
             highlight_row([rs[i + 1] EXCEPT !.hl_context =
                 IF i = 0
                 THEN (IF rs[1].hl_context = UNDEFINED THEN NORMAL ELSE rs[1].hl_context)
                 ELSE new_context]))

\* highlight(rows): the slice as the call leaves it, and the returned count
highlight(rs) == highlight_loop(rs, 0, UNDEFINED, 0)

(***************************************************************************)
(* The buffer under the highlighter: NRows rows, loaded and highlighted    *)
(* from index 0, then edited one row at a time; after each edit of row k   *)
(* the caller runs highlight(&mut rows[k..]).                              *)
(***************************************************************************)
NRows == 3

\* the texts a row is given
HlTexts ==
    { <<>>,
      <<"a", "(">>,
      <<"/", "*">>,
      <<"*", "/">>,
      <<"\"">>,
      <<"r", "#", "\"">> }

\* Row::new(string), as Buffer loads it: never highlighted
fresh_row(string) ==
    [string |-> string, hl_context |-> UNDEFINED, faces |-> <<>>, revised |-> 0]

fresh_rows(texts) == [i \in 1..Len(texts) |-> fresh_row(texts[i])]

\* the same rows with the record of the last call's work cleared
unrevised(rs) == [i \in 1..Len(rs) |-> [rs[i] EXCEPT !.revised = 0]]

\* highlight(&mut rs[k..]): the whole buffer after the call, and the count
splice(rs, k, h) == [rows |-> SubSeq(rs, 1, k) \o h.rows, len |-> h.len]

highlight_from(rs, k) == splice(rs, k, highlight(SubSeq(rs, k + 1, Len(rs))))

TkIdle ==
    /\ tk_prev = NoToken
    /\ tk_in = NORMAL
    /\ tk_text = <<>>
    /\ tk_tokens = <<>>
    /\ tk_out = NORMAL

RowIdle ==
    /\ row = [string |-> <<>>]
    /\ rop = "none"
    /\ ret = <<>>

HlIdle ==
    /\ rows = <<>>
    /\ pre = <<>>
    /\ hk = 0
    /\ hlen = 0
    /\ hop = "none"

DrawIdle ==
    /\ draw_coloff = 0
    /\ draw_width = 0
    /\ canvas = <<>>
    /\ draw_fault = FALSE

\* no file name was looked at
None == [some |-> FALSE, s |-> <<>>]

Some(s) == [some |-> TRUE, s |-> s]

DetIdle ==
    /\ filename = None
    /\ syntax = "Plain"

EdIdle ==
    /\ state = "Default"
    /\ buffer = [modified |-> FALSE, filename |-> None]
    /\ minibuffer = <<>>
    /\ key = "none"
    /\ prev_state = "Default"
    /\ pc = "idle"
    /\ panicked = FALSE

AuxIdle == DrawIdle /\ DetIdle /\ EdIdle

HlInit ==
    /\ \E texts \in [1..NRows -> HlTexts] :
          /\ pre = fresh_rows(texts)
          /\ \E h \in {highlight_from(fresh_rows(texts), 0)} :
                /\ rows = h.rows
                /\ hlen = h.len
    /\ hk = 0
    /\ hop = "load"
    /\ TkIdle
    /\ RowIdle
    /\ AuxIdle

\* the text of row k is replaced (its hl_context stays), then highlight(rows[k..])
Edit(k, text) ==
    /\ pre' = [unrevised(rows) EXCEPT ![k + 1].string = text]
    /\ \E h \in {highlight_from(pre', k)} :
          /\ rows' = h.rows
          /\ hlen' = h.len
    /\ hk' = k
    /\ hop' = "edit"
    /\ UNCHANGED <<tkvars, rowvars, auxvars>>

\* highlight(rows[k..]) once more, with no edit since the last call
Again(k) ==
    /\ pre' = unrevised(rows)
    /\ \E h \in {highlight_from(pre', k)} :
          /\ rows' = h.rows
          /\ hlen' = h.len
    /\ hk' = k
    /\ hop' = "again"
    /\ UNCHANGED <<tkvars, rowvars, auxvars>>

HlNext ==
    \/ \E k \in 0..(NRows - 1), text \in HlTexts : Edit(k, text)
    \/ \E k \in 0..NRows : Again(k)

SpecHl == HlInit /\ [][HlNext]_vars

(***************************************************************************)
(* The tokenizer as highlight_row drives it over the rows of a file: the   *)
(* first row is tokenized in plain-code context, each following row in the *)
(* context the row before it left.                                         *)
(***************************************************************************)
MaxTkLen == 4       \* longest first row drawn from TkChars
MaxRawBody == 5     \* longest body after the opener of the raw strings drawn
MaxTkDepth == 3     \* deepest comment nesting a following row is tokenized in

\* all sequences over S of length at most n
BoundedSeqs(S, n) == UNION {[1..m -> S] : m \in 0..n}

TkChars == {"/", "*", " ", "r", "#", "\"", "a"}

\* the sample rows of the specification's section 8
TkExamples ==
    { <<"/", "*", " ", "/", "*", " ", "i", "n", "n", "e", "r">>,
      <<"*", "/", " ", "*", "/">>,
      <<"r", "#", "#", "\"", "a", "\"", "#", "b", "\"", "#", "#">>,
      <<"r", "#", "#", "\"", "a", "\"", "#", "b", "\"", "#">> }

\* raw strings opened with N hashes, N in 0..2, over quotes, hashes and a letter
RawFamily ==
    {<<"r">> \o Repeat(<<"#">>, n) \o <<"\"">> \o body :
        n \in 0..2, body \in BoundedSeqs({"\"", "#", "a"}, MaxRawBody)}

\* the texts of a first row
TkTexts == BoundedSeqs(TkChars, MaxTkLen) \cup RawFamily \cup TkExamples

\* the texts of a following row
TkNextTexts ==
    { <<>>,
      <<"a">>,
      <<"/", "*">>,
      <<"*", "/">>,
      <<"*", "/", " ", "*", "/">>,
      <<"*", "/", "*", "/">>,
      <<"*", "/", " ", "*", "/", " ", "*", "/">>,
      <<"\"">>,
      <<"\"", "#">>,
      <<"\"", "#", "#">>,
      <<"/", "*", " ", "/", "*", " ", "i", "n", "n", "e", "r">> }

\* the first row of the file is tokenized in plain-code context
TkInit ==
    /\ tk_prev = NoToken
    /\ tk_in = NORMAL
    /\ tk_text \in TkTexts
    /\ tk_tokens = Tokens(tk_text, decode_context(tk_in))
    /\ tk_out = encode_context(KindAt(tk_tokens, Len(tk_tokens)))
    /\ HlIdle
    /\ RowIdle
    /\ AuxIdle

\* the next row of the file is tokenized in the context this row left
NextRow(text) ==
    /\ tk_out \div Shift(IN_COMMENT) <= MaxTkDepth
    /\ tk_prev' = KindAt(tk_tokens, Len(tk_tokens))
    /\ tk_in' = tk_out
    /\ tk_text' = text
    /\ tk_tokens' = Tokens(text, decode_context(tk_out))
    /\ tk_out' = encode_context(KindAt(tk_tokens', Len(tk_tokens')))
    /\ UNCHANGED <<hlvars, rowvars, auxvars>>

TkNext == \E text \in TkNextTexts : NextRow(text)

SpecTok == TkInit /\ [][TkNext]_vars

(***************************************************************************)
(* Rows (row.rs)                                                           *)
(***************************************************************************)
TAB_WIDTH == 4

\* a width that gives every char a column of its own
width_min_one(ch) == CASE ch = WIDE -> 2 [] OTHER -> 1

\* UnicodeWidthChar::width(ch).unwrap_or(0)
width(ch) == CASE ch = WIDE -> 2 [] ch = ZW -> 0 [] OTHER -> 1

\* UintVec::get: the tables are 0-based
get(v, i) == v[i + 1]

\* the number of chars of text that begin before byte idx: the char position
\* of the char boundary idx
char_pos(text, idx) ==
    Cardinality({c \in 1..Len(text) : byte_offset(text, c - 1) < idx})

\* the body of the loop of update, with the tables that omit the tab stops:
\* a tab takes TAB_WIDTH columns wherever it begins
update_char_fixed_tab(r, cx, ch) ==
    [ string |-> r.string,
      render |-> r.render \o (IF ch = "\t" THEN Repeat(<<" ">>, TAB_WIDTH) ELSE <<ch>>),
      cx_to_rx |-> Append(r.cx_to_rx, Len(r.rx_to_idx)),
      cx_to_idx |-> Append(r.cx_to_idx, byte_offset(r.string, cx)),
      rx_to_cx |-> r.rx_to_cx \o
                   Repeat(<<cx>>, IF ch = "\t" THEN TAB_WIDTH ELSE width(ch)),
      rx_to_idx |-> r.rx_to_idx \o
                    (IF ch = "\t"
                     THEN [i \in 1..TAB_WIDTH |-> str_len(r.render) + i - 1]
                     ELSE Repeat(<<str_len(r.render)>>, width(ch))) ]

\* the body of the loop of update with logical indices counted from 1 in
\* rx_to_cx
update_char_one_based(r, cx, ch) ==
    [ string |-> r.string,
      render |-> r.render \o
                 (IF ch = "\t"
                  THEN Repeat(<<" ">>, TAB_WIDTH - (Len(r.rx_to_idx) % TAB_WIDTH))
                  ELSE <<ch>>),
      cx_to_rx |-> Append(r.cx_to_rx, Len(r.rx_to_idx)),
      cx_to_idx |-> Append(r.cx_to_idx, byte_offset(r.string, cx)),
      rx_to_cx |-> r.rx_to_cx \o
                   Repeat(<<cx + 1>>, IF ch = "\t"
                                      THEN TAB_WIDTH - (Len(r.rx_to_idx) % TAB_WIDTH)
                                      ELSE width(ch)),
      rx_to_idx |-> r.rx_to_idx \o
                    (IF ch = "\t"
                     THEN [i \in 1..(TAB_WIDTH - (Len(r.rx_to_idx) % TAB_WIDTH)) |->
                              str_len(r.render) + i - 1]
                     ELSE Repeat(<<str_len(r.render)>>, width(ch))) ]

\* the body of the loop of update for the char ch at logical index cx
update_char(r, cx, ch) ==
    [ string |-> r.string,
      render |-> r.render \o
                 (IF ch = "\t"
                  THEN Repeat(<<" ">>, TAB_WIDTH - (Len(r.rx_to_idx) % TAB_WIDTH))
                  ELSE <<ch>>),
      cx_to_rx |-> Append(r.cx_to_rx, Len(r.rx_to_idx)),
      cx_to_idx |-> Append(r.cx_to_idx, byte_offset(r.string, cx)),
      rx_to_cx |-> r.rx_to_cx \o
                   Repeat(<<cx>>, IF ch = "\t"
                                  THEN TAB_WIDTH - (Len(r.rx_to_idx) % TAB_WIDTH)
                                  ELSE width(ch)),
      rx_to_idx |-> r.rx_to_idx \o
                    (IF ch = "\t"
                     THEN [i \in 1..(TAB_WIDTH - (Len(r.rx_to_idx) % TAB_WIDTH)) |->
                              str_len(r.render) + i - 1]
                     ELSE Repeat(<<str_len(r.render)>>, width(ch))) ]

RECURSIVE update_loop(_, _)
\* the loop of update over the chars of the string, from logical index cx on
update_loop(r, cx) ==
    IF cx >= Len(r.string) THEN r
    ELSE update_loop(update_char(r, cx, r.string[cx + 1]), cx + 1)

\* the row with its render and its tables cleared
cleared(r) ==
    [ string |-> r.string, render |-> <<>>, cx_to_rx |-> <<>>, rx_to_cx |-> <<>>,
      cx_to_idx |-> <<>>, rx_to_idx |-> <<>> ]

\* the sentinels that end the tables
sentinels(r) ==
    [ string |-> r.string,
      render |-> r.render,
      cx_to_rx |-> Append(r.cx_to_rx, Len(r.rx_to_idx)),
      rx_to_cx |-> Append(r.rx_to_cx, Len(r.cx_to_idx)),
      cx_to_idx |-> Append(r.cx_to_idx, str_len(r.string)),
      rx_to_idx |-> Append(r.rx_to_idx, str_len(r.render)) ]

\* update that appends to the tables of the row as they are
update_keep_tables(r) == sentinels(update_loop(r, 0))

\* update that ends rx_to_cx with the length cx_to_idx has once its own
\* sentinel is pushed
update_late_sentinel(r) ==
    [sentinels(update_loop(cleared(r), 0)) EXCEPT
        !.rx_to_cx = Append(update_loop(cleared(r), 0).rx_to_cx, Len(r.string) + 1)]

update(r) == sentinels(update_loop(cleared(r), 0))

\* the row r with the string s, before update
with_string(r, s) == [r EXCEPT !.string = s]

Row_new(string) ==
    update([ string |-> string, render |-> <<>>, cx_to_rx |-> <<>>, rx_to_cx |-> <<>>,
             cx_to_idx |-> <<>>, rx_to_idx |-> <<>> ])

max_cx(r) == Len(r.cx_to_idx) - 1

max_rx(r) == Len(r.rx_to_idx) - 1

\* String::insert, String::remove, String::truncate, String::split_off at a
\* byte index
string_insert(s, idx, ch) ==
    SubSeq(s, 1, char_pos(s, idx)) \o <<ch>> \o SubSeq(s, char_pos(s, idx) + 1, Len(s))

string_remove(s, idx) ==
    SubSeq(s, 1, char_pos(s, idx)) \o SubSeq(s, char_pos(s, idx) + 2, Len(s))

\* truncate leaves a string shorter than idx as it is
string_truncate(s, idx) ==
    IF idx > str_len(s) THEN s ELSE SubSeq(s, 1, char_pos(s, idx))

string_split_off(s, idx) == SubSeq(s, char_pos(s, idx) + 1, Len(s))

(***************************************************************************)
(* One row under the operations of Row                                     *)
(***************************************************************************)
MaxRowLen == 4
MaxPush == 2

RowChars == {"a", "\t", WIDE, ZW}

RowInit ==
    /\ \E string \in BoundedSeqs(RowChars, MaxRowLen) : row = Row_new(string)
    /\ rop = "new"
    /\ ret = <<>>
    /\ HlIdle
    /\ TkIdle
    /\ AuxIdle

insert(cx, ch) ==
    /\ Len(row.string) < MaxRowLen
    /\ cx \in 0..max_cx(row)
    /\ row' = update(with_string(row, string_insert(row.string, get(row.cx_to_idx, cx), ch)))
    /\ rop' = "insert"
    /\ ret' = <<>>
    /\ UNCHANGED <<hlvars, tkvars, auxvars>>

\* String::remove panics at the end of the string
remove(cx) ==
    /\ cx \in 0..(max_cx(row) - 1)
    /\ row' = update(with_string(row, string_remove(row.string, get(row.cx_to_idx, cx))))
    /\ rop' = "remove"
    /\ ret' = <<>>
    /\ UNCHANGED <<hlvars, tkvars, auxvars>>

clear ==
    /\ row' = update(with_string(row, <<>>))
    /\ rop' = "clear"
    /\ ret' = <<>>
    /\ UNCHANGED <<hlvars, tkvars, auxvars>>

truncate(cx) ==
    /\ cx \in 0..max_cx(row)
    /\ row' = update(with_string(row, string_truncate(row.string, get(row.cx_to_idx, cx))))
    /\ rop' = "truncate"
    /\ ret' = <<>>
    /\ UNCHANGED <<hlvars, tkvars, auxvars>>

split_off(cx) ==
    /\ cx \in 0..max_cx(row)
    /\ ret' = string_split_off(row.string, get(row.cx_to_idx, cx))
    /\ row' = update(with_string(row, string_truncate(row.string, get(row.cx_to_idx, cx))))
    /\ rop' = "split_off"
    /\ UNCHANGED <<hlvars, tkvars, auxvars>>

push_str(string) ==
    /\ Len(row.string) + Len(string) <= MaxRowLen
    /\ row' = update(with_string(row, row.string \o string))
    /\ rop' = "push_str"
    /\ ret' = <<>>
    /\ UNCHANGED <<hlvars, tkvars, auxvars>>

remove_str(from_cx, to_cx) ==
    /\ from_cx \in 0..max_cx(row)
    /\ to_cx \in 0..max_cx(row)
    /\ row' = update(with_string(row,
                  string_truncate(string_truncate(row.string, get(row.cx_to_idx, to_cx)),
                                  get(row.cx_to_idx, from_cx))
                  \o string_split_off(row.string, get(row.cx_to_idx, to_cx))))
    /\ rop' = "remove_str"
    /\ ret' = <<>>
    /\ UNCHANGED <<hlvars, tkvars, auxvars>>

RowNext ==
    \/ \E cx \in 0..MaxRowLen, ch \in RowChars : insert(cx, ch)
    \/ \E cx \in 0..MaxRowLen : remove(cx)
    \/ clear
    \/ \E cx \in 0..MaxRowLen : truncate(cx)
    \/ \E cx \in 0..MaxRowLen : split_off(cx)
    \/ \E string \in BoundedSeqs(RowChars, MaxPush) : push_str(string)
    \/ \E from_cx \in 0..MaxRowLen, to_cx \in 0..MaxRowLen : remove_str(from_cx, to_cx)

SpecRow == RowInit /\ [][RowNext]_vars

(***************************************************************************)
(* Row::draw                                                               *)
(***************************************************************************)
MARKER == "\\x1b[34m~\\x1b[39m"

\* &self.render[start_idx..end_idx]: the chars of render that begin in the
\* byte range
render_slice(render, start_idx, end_idx) ==
    SelectSeq([i \in 1..Len(render) |->
                  IF start_idx <= byte_offset(render, i - 1)
                     /\ byte_offset(render, i - 1) < end_idx
                  THEN render[i] ELSE ""],
              LAMBDA c : c # "")

\* a call of draw that panics: an index out of range, a usize below 0, a slice
\* that ends before it begins
draw_panic == [fault |-> TRUE, canvas |-> <<>>]

\* the writes of draw, once the bounds are adjusted
draw_write(r, start_idx, end_idx, truncate_start, truncate_end) ==
    IF start_idx > end_idx THEN draw_panic
    ELSE [ fault |-> FALSE,
           canvas |-> (IF truncate_start THEN <<MARKER>> ELSE <<>>)
                      \o render_slice(r.render, start_idx, end_idx)
                      \o (IF truncate_end THEN <<MARKER>> ELSE <<>>) ]

\* draw that writes the marker of the left edge and leaves start_rx where it
\* is
draw_adjust_keep_start(r, start_rx, end_rx, truncate_start, truncate_end) ==
    draw_write(r,
               get(r.rx_to_idx, start_rx),
               get(r.rx_to_idx, IF truncate_end THEN end_rx - 1 ELSE end_rx),
               truncate_start, truncate_end)

\* draw from the adjustment of the bounds on
draw_adjust(r, start_rx, end_rx, truncate_start, truncate_end) ==
    draw_write(r,
               get(r.rx_to_idx, IF truncate_start THEN start_rx + 1 ELSE start_rx),
               get(r.rx_to_idx, IF truncate_end THEN end_rx - 1 ELSE end_rx),
               truncate_start, truncate_end)

\* draw that looks for a torn glyph at the left edge only
draw_clip_left_only(r, start_rx, end_rx) ==
    IF end_rx = 0 THEN draw_panic
    ELSE draw_adjust(r, start_rx, end_rx,
                     start_rx > 0 /\ get(r.rx_to_idx, start_rx) = get(r.rx_to_idx, start_rx - 1),
                     FALSE)

\* draw from the clipping on; end_rx <= max_rx holds of every end_rx, so that
\* end_rx - 1 is computed, and is below 0 when end_rx is 0
draw_clip(r, start_rx, end_rx) ==
    IF end_rx = 0 THEN draw_panic
    ELSE draw_adjust(r, start_rx, end_rx,
                     start_rx > 0 /\ get(r.rx_to_idx, start_rx) = get(r.rx_to_idx, start_rx - 1),
                     end_rx <= max_rx(r)
                         /\ get(r.rx_to_idx, end_rx - 1) = get(r.rx_to_idx, end_rx))

cmp_min(a, b) == IF a <= b THEN a ELSE b

draw(r, coloff, w) ==
    IF max_rx(r) <= coloff THEN [fault |-> FALSE, canvas |-> <<>>]
    ELSE draw_clip(r, coloff, cmp_min(coloff + w, max_rx(r)))

(***************************************************************************)
(* One row drawn in a window                                               *)
(***************************************************************************)
MaxColoff == 5
MaxDrawWidth == 4

DrawInit ==
    /\ \E string \in BoundedSeqs(RowChars, MaxRowLen) : row = Row_new(string)
    /\ rop = "new"
    /\ ret = <<>>
    /\ DrawIdle
    /\ DetIdle
    /\ EdIdle
    /\ HlIdle
    /\ TkIdle

Draw(coloff, w) ==
    /\ draw_coloff' = coloff
    /\ draw_width' = w
    /\ \E d \in {draw(row, coloff, w)} :
          /\ canvas' = d.canvas
          /\ draw_fault' = d.fault
    /\ UNCHANGED <<hlvars, tkvars, rowvars, detvars, edvars>>

DrawNext == \E coloff \in 0..MaxColoff, w \in 0..MaxDrawWidth : Draw(coloff, w)

SpecDraw == DrawInit /\ [][DrawNext]_vars

(***************************************************************************)
(* One row typed word by word and highlighted after each word              *)
(***************************************************************************)
MaxFaceWords == 3

\* the words typed, each followed by a blank when another word follows
FaceWords ==
    { <<"f", "n">>, <<"l", "e", "t">>, <<"f", "o", "r">>, <<"m", "u", "t">>,
      <<"m", "o", "d">>, <<"f", "o", "o">>, <<"r", "#", "x">>, <<"F", "o", "o">>,
      <<"u", "8">>, <<"(">>, <<"!">>, <<":", ":">>, <<":">>, <<"?">>, <<"=">> }

\* fn foo() {}  and  let bar = 1;
FaceExamples ==
    { <<"f", "n", " ", "f", "o", "o", "(", ")", " ", "{", "}">>,
      <<"l", "e", "t", " ", "b", "a", "r", " ", "=", " ", "1", ";">> }

\* the number of blanks of the text
Blanks(text) == Cardinality({i \in 1..Len(text) : text[i] = " "})

\* the buffer holds one row, loaded and highlighted
FaceInit ==
    /\ \E text \in {<<>>} \cup FaceExamples :
          /\ pre = fresh_rows(<<text>>)
          /\ \E h \in {highlight_from(fresh_rows(<<text>>), 0)} :
                /\ rows = h.rows
                /\ hlen = h.len
    /\ hk = 0
    /\ hop = "load"
    /\ TkIdle
    /\ RowIdle
    /\ AuxIdle

\* a word is typed at the end of the row, then highlight(rows[0..])
TypeWord(word) ==
    /\ rows[1].string = <<>> \/ Blanks(rows[1].string) < MaxFaceWords - 1
    /\ pre' = [unrevised(rows) EXCEPT
                  ![1].string = IF rows[1].string = <<>> THEN word
                                ELSE rows[1].string \o <<" ">> \o word]
    /\ \E h \in {highlight_from(pre', 0)} :
          /\ rows' = h.rows
          /\ hlen' = h.len
    /\ hk' = 0
    /\ hop' = "edit"
    /\ UNCHANGED <<tkvars, rowvars, auxvars>>

FaceNext == \E word \in FaceWords : TypeWord(word)

SpecFace == FaceInit /\ [][FaceNext]_vars

(***************************************************************************)
(* Syntax::detect                                                          *)
(***************************************************************************)
\* str::starts_with
starts_with(s, pat) == Len(s) >= Len(pat) /\ SubSeq(s, 1, Len(pat)) = pat

\* str::ends_with
ends_with(s, pat) ==
    Len(s) >= Len(pat) /\ SubSeq(s, Len(s) - Len(pat) + 1, Len(s)) = pat

detect(name) ==
    IF name.some
    THEN IF ends_with(name.s, <<".", "r", "s">>) THEN "Rust" ELSE "Plain"
    ELSE "Plain"

MaxNameLen == 5

NameChars == {".", "r", "s"}

\* the editor is started without a file name
DetInit ==
    /\ filename = None
    /\ syntax = detect(None)
    /\ DrawIdle
    /\ EdIdle
    /\ HlIdle
    /\ TkIdle
    /\ RowIdle

Detect(name) ==
    /\ filename' = name
    /\ syntax' = detect(name)
    /\ UNCHANGED <<hlvars, tkvars, rowvars, drawvars, edvars>>

DetNext == \E name \in {None} \cup {Some(s) : s \in BoundedSeqs(NameChars, MaxNameLen)} : Detect(name)

SpecDetect == DetInit /\ [][DetNext]_vars

(***************************************************************************)
(* A row that opens a construct, followed by blank rows                    *)
(***************************************************************************)
U8_MAX == 255

\* the rows that open an attribute, a string, a raw string of 0..=255 hashes
\* and block comments nested 1..=256 deep, and leave them open
OpenerTexts ==
    { <<"#", "[">>, <<"\"">> }
    \cup { <<"r">> \o Repeat(<<"#">>, n) \o <<"\"">> : n \in 0..U8_MAX }
    \cup { Repeat(<<"/", "*">>, d) : d \in 1..(U8_MAX + 1) }

BlankTexts == { <<>>, <<" ">> }

\* the first row of the file opens a construct
OpenInit ==
    /\ tk_prev = NoToken
    /\ tk_in = NORMAL
    /\ tk_text \in OpenerTexts
    /\ tk_tokens = Tokens(tk_text, decode_context(tk_in))
    /\ tk_out = encode_context(KindAt(tk_tokens, Len(tk_tokens)))
    /\ HlIdle
    /\ RowIdle
    /\ AuxIdle

\* highlight_row on the following row, which is blank
BlankRow(text) ==
    /\ tk_prev' = KindAt(tk_tokens, Len(tk_tokens))
    /\ tk_in' = tk_out
    /\ tk_text' = text
    /\ tk_tokens' = Tokens(text, decode_context(tk_out))
    /\ tk_out' = encode_context(KindAt(tk_tokens', Len(tk_tokens')))
    /\ UNCHANGED <<hlvars, rowvars, auxvars>>

CtxNext == \E text \in BlankTexts : BlankRow(text)

SpecCtx == OpenInit /\ [][CtxNext]_vars

(***************************************************************************)
(* Rows of multi-byte chars tokenized row after row                        *)
(***************************************************************************)
MaxSpanLen == 4

SpanChars == {"a", WIDE, "'", "\"", "/", "*", "#", "[", "r"}

\* the texts of a following row: closers of each construct among chars of
\* several bytes
SpanNextTexts ==
    { <<>>,
      <<WIDE>>,
      <<WIDE, "*", "/", WIDE>>,
      <<"/", "*", WIDE>>,
      <<WIDE, "\"", "a">>,
      <<"]", WIDE, "a">>,
      <<"\"", "#", WIDE>>,
      <<"'", WIDE, "'", " ", "'", "a">>,
      <<" ", ZW, " ", "a", WIDE>> }

SpanInit ==
    /\ tk_prev = NoToken
    /\ tk_in = NORMAL
    /\ tk_text \in BoundedSeqs(SpanChars, MaxSpanLen)
    /\ tk_tokens = Tokens(tk_text, decode_context(tk_in))
    /\ tk_out = encode_context(KindAt(tk_tokens, Len(tk_tokens)))
    /\ HlIdle
    /\ RowIdle
    /\ AuxIdle

SpanNext == \E text \in SpanNextTexts : NextRow(text)

SpecSpan == SpanInit /\ [][SpanNext]_vars

(***************************************************************************)
(* Keys                                                                    *)
(***************************************************************************)
\* the byte of an ASCII char, b'c'
byte(ch) ==
    CASE ch = "<" -> 60 [] ch = ">" -> 62
      [] ch = "A" -> 65 [] ch = "B" -> 66 [] ch = "D" -> 68 [] ch = "E" -> 69
      [] ch = "F" -> 70 [] ch = "H" -> 72 [] ch = "I" -> 73 [] ch = "K" -> 75
      [] ch = "U" -> 85 [] ch = "C" -> 67 [] ch = "O" -> 79 [] ch = "[" -> 91
      [] ch = "a" -> 97 [] ch = "g" -> 103 [] ch = "j" -> 106 [] ch = "m" -> 109
      [] ch = "q" -> 113 [] ch = "s" -> 115 [] ch = "~" -> 126
      [] ch = "0" -> 48 [] ch = "1" -> 49 [] ch = "3" -> 51 [] ch = "4" -> 52
      [] ch = "5" -> 53 [] ch = "6" -> 54 [] ch = "7" -> 55 [] ch = "8" -> 56
      [] ch = "ESC" -> 27

\* the variants of Key that editor.rs and minibuffer.rs name
Ctrl(n) == [k |-> "Ctrl", b |-> n]
Alt(n) == [k |-> "Alt", b |-> n]
Plain(n) == [k |-> "Plain", b |-> n]
Char(ch) == [k |-> "Char", b |-> ch]
Unit(name) == [k |-> name, b |-> 0]

\* the match of read_key on the 4 bytes read, first arm first
read_key(buf) ==
    IF buf[1] \in 1..26 /\ buf[2] = 0 /\ buf[3] = 0 /\ buf[4] = 0 THEN Ctrl(byte("a") + buf[1] - 1)
    ELSE IF buf = <<127, 0, 0, 0>> THEN Unit("Backspace")
    ELSE IF buf[1] = byte("ESC") /\ buf[3] = 0 /\ buf[4] = 0 THEN Alt(buf[2])
    ELSE IF buf = <<byte("ESC"), byte("["), byte("A"), 0>> THEN Unit("ArrowUp")
    ELSE IF buf = <<byte("ESC"), byte("["), byte("B"), 0>> THEN Unit("ArrowDown")
    ELSE IF buf = <<byte("ESC"), byte("["), byte("C"), 0>> THEN Unit("ArrowRight")
    ELSE IF buf = <<byte("ESC"), byte("["), byte("D"), 0>> THEN Unit("ArrowLeft")
    ELSE IF buf = <<byte("ESC"), byte("["), byte("F"), 0>> THEN Unit("End")
    ELSE IF buf = <<byte("ESC"), byte("["), byte("H"), 0>> THEN Unit("Home")
    ELSE IF buf = <<byte("ESC"), byte("["), byte("O"), byte("F")>> THEN Unit("End")
    ELSE IF buf = <<byte("ESC"), byte("["), byte("O"), byte("H")>> THEN Unit("Home")
    ELSE IF buf = <<byte("ESC"), byte("["), byte("1"), byte("~")>> THEN Unit("Home")
    ELSE IF buf = <<byte("ESC"), byte("["), byte("3"), byte("~")>> THEN Unit("Delete")
    ELSE IF buf = <<byte("ESC"), byte("["), byte("4"), byte("~")>> THEN Unit("End")
    ELSE IF buf = <<byte("ESC"), byte("["), byte("5"), byte("~")>> THEN Unit("PageUp")
    ELSE IF buf = <<byte("ESC"), byte("["), byte("6"), byte("~")>> THEN Unit("PageDown")
    ELSE IF buf = <<byte("ESC"), byte("["), byte("7"), byte("~")>> THEN Unit("Home")
    ELSE IF buf = <<byte("ESC"), byte("["), byte("8"), byte("~")>> THEN Unit("End")
    ELSE IF buf[1] = byte("ESC") THEN Unit("Escape")
    ELSE Plain(buf[1])

(***************************************************************************)
(* Minibuffer                                                              *)
(***************************************************************************)
\* Row as minibuffer.rs uses it: positions x are display columns, and a
\* column stands for the char drawn there
max_x(r) == max_rx(r)

x_to_idx(r, x) == get(r.cx_to_idx, get(r.rx_to_cx, x))

\* the columns where a char begins, and the end of the row
Stops(r) ==
    {x \in 0..max_x(r) : x = 0 \/ x = max_x(r) \/ get(r.rx_to_cx, x) # get(r.rx_to_cx, x - 1)}

prev_x(r, x) == CHOOSE y \in Stops(r) : y < x /\ \A z \in Stops(r) : z < x => z <= y

next_x(r, x) == CHOOSE y \in Stops(r) : y > x /\ \A z \in Stops(r) : z > x => y <= z

Row_clear(r) == update(with_string(r, <<>>))

Row_push_str(r, string) == update(with_string(r, r.string \o string))

Row_insert(r, x, ch) == update(with_string(r, string_insert(r.string, x_to_idx(r, x), ch)))

Row_remove(r, x) == update(with_string(r, string_remove(r.string, x_to_idx(r, x))))

Row_truncate(r, x) == update(with_string(r, string_truncate(r.string, x_to_idx(r, x))))

Row_remove_str(r, from_x, to_x) ==
    update(with_string(r,
        string_truncate(string_truncate(r.string, x_to_idx(r, to_x)), x_to_idx(r, from_x))
        \o string_split_off(r.string, x_to_idx(r, to_x))))

Minibuffer_new ==
    [ size_w |-> 0, offset_x |-> 0, cursor_x |-> 0, prompt_len |-> 0,
      row |-> Row_new(<<>>), faces |-> <<>> ]

\* set_position(x, y, w, h): the fields pos and size; of these size.w is kept
set_position(m, w) == [m EXCEPT !.size_w = w]

set_message(m, string) ==
    [m EXCEPT !.row = Row_push_str(Row_clear(m.row), string),
              !.offset_x = 0,
              !.cursor_x = 0,
              !.prompt_len = 0]

\* set_prompt that leaves the last column of the prompt to the input
set_prompt_short(m, string) ==
    LET r == Row_push_str(Row_clear(m.row), string)
    IN [m EXCEPT !.row = r,
                 !.offset_x = 0,
                 !.cursor_x = max_x(r),
                 !.prompt_len = IF max_x(r) = 0 THEN 0 ELSE max_x(r) - 1]

set_prompt(m, string) ==
    LET r == Row_push_str(Row_clear(m.row), string)
    IN [m EXCEPT !.row = r,
                 !.offset_x = 0,
                 !.cursor_x = max_x(r),
                 !.prompt_len = max_x(r)]

\* whether byte idx is a char boundary of text
is_char_boundary(text, idx) ==
    \E c \in 0..Len(text) : byte_offset(text, c) = idx

\* &self.row.string[self.prompt_len..] panics past the end of the string and
\* inside a char
get_input(m) ==
    IF is_char_boundary(m.row.string, m.prompt_len)
    THEN [fault |-> FALSE, s |-> string_split_off(m.row.string, m.prompt_len)]
    ELSE [fault |-> TRUE, s |-> <<>>]

\* Vec::resize
resize(v, n, x) == [i \in 1..n |-> IF i <= Len(v) THEN v[i] ELSE x]

\* what Minibuffer::draw leaves in the minibuffer: the faces of the row
Minibuffer_draw(m) ==
    [m EXCEPT !.faces = resize(resize(<<>>, m.prompt_len, "Prompt"),
                               str_len(m.row.string), "Default")]

\* scroll that follows the cursor to the left only
scroll_left_only(m) ==
    IF m.cursor_x < m.offset_x THEN [m EXCEPT !.offset_x = m.cursor_x] ELSE m

scroll(m) ==
    LET m1 == IF m.cursor_x < m.offset_x
              THEN [m EXCEPT !.offset_x = m.cursor_x]
              ELSE m
    IN IF m1.cursor_x >= m1.offset_x + m1.size_w
       THEN [m1 EXCEPT !.offset_x = m1.cursor_x - m1.size_w + 1]
       ELSE m1

\* the cursor after a char was put into the row at the cursor
cursor_next(m) == [m EXCEPT !.cursor_x = next_x(m.row, m.cursor_x)]

\* the match of Minibuffer::process_keypress
Minibuffer_match(m, k) ==
    IF k = Unit("ArrowLeft") \/ k = Ctrl(byte("B")) THEN
        IF m.cursor_x > 0 THEN [m EXCEPT !.cursor_x = prev_x(m.row, m.cursor_x)] ELSE m
    ELSE IF k = Unit("ArrowRight") \/ k = Ctrl(byte("F")) THEN
        IF m.cursor_x < max_x(m.row) THEN cursor_next(m) ELSE m
    ELSE IF k = Unit("Home") \/ k = Ctrl(byte("A")) \/ k = Alt(byte("<")) THEN
        [m EXCEPT !.cursor_x = m.prompt_len, !.offset_x = 0]
    ELSE IF k = Unit("End") \/ k = Ctrl(byte("E")) \/ k = Alt(byte(">")) THEN
        [m EXCEPT !.cursor_x = max_x(m.row)]
    ELSE IF k = Unit("Backspace") \/ k = Ctrl(byte("H")) THEN
        IF m.cursor_x > m.prompt_len
        THEN [m EXCEPT !.cursor_x = prev_x(m.row, m.cursor_x),
                       !.row = Row_remove(m.row, prev_x(m.row, m.cursor_x))]
        ELSE m
    ELSE IF k = Unit("Delete") \/ k = Ctrl(byte("D")) THEN
        IF m.cursor_x >= m.prompt_len /\ m.cursor_x < max_x(m.row)
        THEN [m EXCEPT !.row = Row_remove(m.row, m.cursor_x)]
        ELSE m
    ELSE IF k = Ctrl(byte("I")) THEN
        IF m.cursor_x >= m.prompt_len
        THEN cursor_next([m EXCEPT !.row = Row_insert(m.row, m.cursor_x, "\t")])
        ELSE m
    ELSE IF k = Ctrl(byte("K")) THEN
        IF m.cursor_x >= m.prompt_len
        THEN [m EXCEPT !.row = Row_truncate(m.row, m.cursor_x)]
        ELSE m
    ELSE IF k = Ctrl(byte("U")) THEN
        IF m.cursor_x > m.prompt_len
        THEN [m EXCEPT !.row = Row_remove_str(m.row, m.prompt_len, m.cursor_x),
                       !.cursor_x = m.prompt_len,
                       !.offset_x = 0]
        ELSE m
    ELSE IF k.k = "Char" THEN
        IF m.cursor_x >= m.prompt_len
        THEN cursor_next([m EXCEPT !.row = Row_insert(m.row, m.cursor_x, k.b)])
        ELSE m
    ELSE m

Minibuffer_process_keypress(m, k) == scroll(Minibuffer_match(m, k))

(***************************************************************************)
(* Editor                                                                  *)
(***************************************************************************)
PRESS_CTRL_Q == <<"P", "r", "e", "s", "s", " ", "C", "t", "r", "l", "-", "Q", " ", "t", "o", " ", "q", "u", "i", "t">>
SAVED == <<"S", "a", "v", "e", "d">>
SAVE_AS == <<"S", "a", "v", "e", " ", "a", "s", ":", " ">>
QUIT_WITHOUT_SAVING == <<"Q", "u", "i", "t", " ", "w", "i", "t", "h", "o", "u", "t", " ", "s", "a", "v", "i", "n", "g", "?", " ", "(", "Y", "/", "n", ")", ":", " ">>

\* str::to_lowercase, on the chars of the answers
to_lowercase(text) ==
    [i \in 1..Len(text) |->
        IF text[i] \in AsciiUppercase
        THEN CASE text[i] = "Y" -> "y" [] text[i] = "N" -> "n" [] OTHER -> text[i]
        ELSE text[i]]

\* an editor as process_keypress leaves it: res is "ok", "err" (the ? of
\* save returned) or "panic"
Ed(st, buf, m, res) == [state |-> st, buffer |-> buf, minibuffer |-> m, res |-> res]

\* Buffer::save: Ok(()) leaves the buffer unmodified
saved_buffer(buf) == [buf EXCEPT !.modified = FALSE]

\* Buffer::process_keypress: an edit marks the buffer modified, a movement
\* leaves it as it is
edited_buffer(buf, edit) == [buf EXCEPT !.modified = buf.modified \/ edit]

\* the arm of State::Default that quits whatever the buffer holds
process_default_quit_at_once(buf, m, k, yes) ==
    IF k = Ctrl(byte("s")) THEN
        IF ~buf.filename.some THEN Ed("Save", buf, set_prompt(m, SAVE_AS), "ok")
        ELSE IF yes THEN Ed("Default", saved_buffer(buf), set_message(m, SAVED), "ok")
        ELSE Ed("Default", buf, m, "err")
    ELSE IF k = Ctrl(byte("q")) THEN Ed("Quitted", buf, m, "ok")
    ELSE Ed("Default", edited_buffer(buf, yes), m, "ok")

\* the arm of State::Default
process_default(buf, m, k, yes) ==
    IF k = Ctrl(byte("s")) THEN
        IF ~buf.filename.some THEN Ed("Save", buf, set_prompt(m, SAVE_AS), "ok")
        ELSE IF yes THEN Ed("Default", saved_buffer(buf), set_message(m, SAVED), "ok")
        ELSE Ed("Default", buf, m, "err")
    ELSE IF k = Ctrl(byte("q")) THEN
        IF buf.modified THEN Ed("Quit", buf, set_prompt(m, QUIT_WITHOUT_SAVING), "ok")
        ELSE Ed("Quitted", buf, m, "ok")
    ELSE Ed("Default", edited_buffer(buf, yes), m, "ok")

\* the arm of State::Save
process_save(buf, m, k, yes) ==
    IF k = Ctrl(byte("g")) THEN Ed("Default", buf, set_message(m, <<>>), "ok")
    ELSE IF k = Ctrl(byte("j")) \/ k = Ctrl(byte("m")) THEN
        IF get_input(m).fault THEN Ed("Save", buf, m, "panic")
        ELSE IF yes
        THEN Ed("Default", saved_buffer([buf EXCEPT !.filename = Some(get_input(m).s)]),
                set_message(m, <<>>), "ok")
        ELSE Ed("Save", [buf EXCEPT !.filename = Some(get_input(m).s)], m, "err")
    ELSE Ed("Save", buf, Minibuffer_process_keypress(m, k), "ok")

\* the arm of State::Quit
process_quit(buf, m, k) ==
    IF k = Ctrl(byte("g")) THEN Ed("Default", buf, set_message(m, <<>>), "ok")
    ELSE IF k = Ctrl(byte("j")) \/ k = Ctrl(byte("m")) THEN
        IF get_input(m).fault THEN Ed("Quit", buf, m, "panic")
        ELSE IF get_input(m).s = <<>> \/ to_lowercase(get_input(m).s) = <<"y">>
        THEN Ed("Quitted", buf, m, "ok")
        ELSE Ed("Default", buf, set_message(m, <<>>), "ok")
    ELSE Ed("Quit", buf, Minibuffer_process_keypress(m, k), "ok")

\* Editor::process_keypress; yes is what the buffer answers: that save
\* returned Ok, that the key edited the text
process_keypress(st, buf, m, k, yes) ==
    CASE st = "Default" -> process_default(buf, m, k, yes)
      [] st = "Save" -> process_save(buf, m, k, yes)
      [] st = "Quit" -> process_quit(buf, m, k)
      [] st = "Quitted" -> Ed(st, buf, m, "panic")

(***************************************************************************)
(* The editor under the keys read from the terminal                        *)
(***************************************************************************)
\* the widths the terminal reports
Widths == {80}

\* the file names the editor is started with
StartNames == {None, Some(<<"f">>)}

\* what one read of stdin leaves in buf: control keys, printable keys,
\* Backspace and escape sequences
Stdin ==
    { <<n, 0, 0, 0>> : n \in {2, 7, 9, 10, 13, 17, 19} }
    \cup { <<n, 0, 0, 0>> : n \in {89, 110, 121, 127} }
    \cup { <<27, 60, 0, 0>>, <<27, 91, 67, 0>>, <<27, 91, 68, 0>>,
           <<27, 91, 79, 70>>, <<27, 91, 51, 126>>, <<27, 91, 90, 0>> }

\* Editor::new, as looop finds the editor
EdInit ==
    /\ state = "Default"
    /\ \E name \in StartNames : buffer = [modified |-> FALSE, filename |-> name]
    /\ \E w \in Widths :
          minibuffer = set_message(set_position(Minibuffer_new, w), PRESS_CTRL_Q)
    /\ key = Unit("none")
    /\ prev_state = "Default"
    /\ pc = "refresh"
    /\ panicked = FALSE
    /\ DrawIdle
    /\ DetIdle
    /\ RowIdle
    /\ HlIdle
    /\ TkIdle

\* refresh_screen: bufout is empty again when it returns
Refresh ==
    /\ pc = "refresh"
    /\ minibuffer' = Minibuffer_draw(minibuffer)
    /\ pc' = "read"
    /\ UNCHANGED <<state, buffer, key, prev_state, panicked>>
    /\ UNCHANGED <<hlvars, tkvars, rowvars, drawvars, detvars>>

\* the body of looop without the break: the loop goes on after Quitted
Keypress_no_break(buf, yes) ==
    /\ pc = "read"
    /\ \E r \in {process_keypress(state, buffer, minibuffer, read_key(buf), yes)} :
          /\ state' = r.state
          /\ buffer' = r.buffer
          /\ minibuffer' = r.minibuffer
          /\ panicked' = (r.res = "panic")
          /\ pc' = CASE r.res = "panic" -> "panicked"
                     [] r.res = "err" -> "failed"
                     [] OTHER -> "refresh"
    /\ key' = read_key(buf)
    /\ prev_state' = state
    /\ UNCHANGED <<hlvars, tkvars, rowvars, drawvars, detvars>>

\* read_key, process_keypress and the test of State::Quitted that ends looop
Keypress(buf, yes) ==
    /\ pc = "read"
    /\ \E r \in {process_keypress(state, buffer, minibuffer, read_key(buf), yes)} :
          /\ state' = r.state
          /\ buffer' = r.buffer
          /\ minibuffer' = r.minibuffer
          /\ panicked' = (r.res = "panic")
          /\ pc' = CASE r.res = "panic" -> "panicked"
                     [] r.res = "err" -> "failed"
                     [] r.res = "ok" /\ r.state = "Quitted" -> "done"
                     [] OTHER -> "refresh"
    /\ key' = read_key(buf)
    /\ prev_state' = state
    /\ UNCHANGED <<hlvars, tkvars, rowvars, drawvars, detvars>>

\* the ? of refresh_screen or of read_key returns an error out of looop
IoError ==
    /\ pc \in {"refresh", "read"}
    /\ pc' = "failed"
    /\ UNCHANGED <<state, buffer, minibuffer, key, prev_state, panicked>>
    /\ UNCHANGED <<hlvars, tkvars, rowvars, drawvars, detvars>>

EdNext ==
    \/ Refresh
    \/ \E buf \in Stdin, yes \in BOOLEAN : Keypress(buf, yes)
    \/ IoError

SpecEd == EdInit /\ [][EdNext]_vars

(***************************************************************************)
(* The minibuffer under any keys                                           *)
(***************************************************************************)
MaxInput == 2

\* the widths of the minibuffer
MbWidths == {1, 3}

\* the prompts set_prompt is called with
Prompts == {SAVE_AS}

\* the keys Minibuffer::process_keypress tells apart, and one it ignores;
\* the chars typed take one column or two
MbKeys ==
    { Unit("ArrowLeft"), Unit("ArrowRight"), Unit("Home"), Unit("End"),
      Unit("Backspace"), Unit("Delete"),
      Ctrl(byte("I")), Ctrl(byte("K")), Ctrl(byte("U")),
      Char("y"), Char(WIDE), Plain(121) }

\* the keys that put a char into the row
Inserting(k) == k.k = "Char" \/ k = Ctrl(byte("I"))

MbInit ==
    /\ \E w \in MbWidths, p \in Prompts :
          minibuffer = set_prompt(set_position(Minibuffer_new, w), p)
    /\ state = "Default"
    /\ buffer = [modified |-> FALSE, filename |-> None]
    /\ key = Unit("none")
    /\ prev_state = "Default"
    /\ pc = "set_prompt"
    /\ panicked = FALSE
    /\ DrawIdle
    /\ DetIdle
    /\ RowIdle
    /\ HlIdle
    /\ TkIdle

MbKeypress(k) ==
    /\ Inserting(k) => Len(minibuffer.row.string) < minibuffer.prompt_len + MaxInput
    /\ minibuffer' = Minibuffer_process_keypress(minibuffer, k)
    /\ key' = k
    /\ pc' = "process_keypress"
    /\ UNCHANGED <<state, buffer, prev_state, panicked>>
    /\ UNCHANGED <<hlvars, tkvars, rowvars, drawvars, detvars>>

MbSetPrompt(p) ==
    /\ pc = "process_keypress"
    /\ minibuffer' = set_prompt(minibuffer, p)
    /\ key' = Unit("none")
    /\ pc' = "set_prompt"
    /\ UNCHANGED <<state, buffer, prev_state, panicked>>
    /\ UNCHANGED <<hlvars, tkvars, rowvars, drawvars, detvars>>

MbNext ==
    \/ \E k \in MbKeys : MbKeypress(k)
    \/ \E p \in Prompts : MbSetPrompt(p)

SpecMb == MbInit /\ [][MbNext]_vars

(***************************************************************************)
(* Properties of the highlighter, checked under SpecHl                     *)
(***************************************************************************)
\* what a row holds for the renderer and the next call
Content(r) == [string |-> r.string, hl_context |-> r.hl_context, faces |-> r.faces]

\* the texts of the buffer
Texts == [i \in 1..Len(rows) |-> rows[i].string]

\* the context highlight_row returns for row j (1-based) as the buffer holds it
Out(j) == highlight_row(rows[j]).context

\* row j is the first row after the first of the slice whose stored context
\* equals the context the call just produced for the row before it
Converged(j) ==
    /\ j > hk + 1
    /\ j <= Len(rows)
    /\ pre[j].hl_context = Out(j - 1)
    /\ \A m \in (hk + 2)..(j - 1) : pre[m].hl_context # Out(m - 1)

\* C1: after any sequence of edits of one row k, each followed by
\* highlight(rows[k..]), every row's hl_context and faces are those a fresh copy
\* of the same texts gets when it is highlighted from index 0
C1_IncrementalEqualsFull ==
    \A i \in 1..Len(rows) :
        Content(rows[i]) = Content(highlight(fresh_rows(Texts)).rows[i])

\* an edit of row 0 changed the context of row 1, which was re-lexed, and the
\* call converged on row 2
C1_Witness ==
    /\ hop = "edit"
    /\ hk = 0
    /\ hlen = 2
    /\ rows[2].hl_context # pre[2].hl_context
    /\ rows[3].hl_context # NORMAL

\* C2: highlight stops at the first row i > 0 of the slice whose stored context
\* equals the context just produced by row i-1, and leaves that row and every
\* later row as they were
C2_ConvergenceStop ==
    \A j \in 1..Len(rows) :
        Converged(j) =>
            /\ hlen = j - 1 - hk
            /\ \A m \in j..Len(rows) : rows[m] = pre[m]

\* a call on the whole buffer re-lexed two rows and stopped on the third
C2_Witness ==
    /\ hop = "edit"
    /\ hk = 0
    /\ Converged(3)
    /\ rows[2].faces # pre[2].faces

\* C3 as stated: a second highlight call with no edit in between processes no
\* row and returns 0
C3_SecondCallRevisesNothing ==
    hop = "again" => (hlen = 0 /\ \A i \in 1..Len(rows) : rows[i].revised = 0)

\* C3 as the code has it: a second highlight call with no edit in between
\* processes the first row of a non-empty slice and no other row, returns 1
\* (0 for an empty slice), and changes no row's hl_context or faces
C3_SecondCallRevisesFirstRowOnly ==
    hop = "again" =>
        /\ hlen = (IF hk < Len(rows) THEN 1 ELSE 0)
        /\ \A i \in 1..Len(rows) :
              /\ rows[i].revised > 0 <=> i = hk + 1
              /\ Content(rows[i]) = Content(pre[i])

\* the second call ran on a converged range that starts inside a construct
\* left open by the row before
C3_Witness ==
    /\ hop = "again"
    /\ hk = 1
    /\ hlen = 1
    /\ rows[2].hl_context # NORMAL
    /\ rows[2].revised = 1

\* the context the new computation produces for row j: the one row j gets when
\* the texts as edited are highlighted from index 0
NewIncoming(j) == highlight(fresh_rows(Texts)).rows[j].hl_context

\* C4 as stated: after an edit of row k and highlight(rows[k..]), no row from
\* k on is revised if its stored context equals the incoming context of the new
\* computation
C4_NoRowRevisedWhenContextUnchanged ==
    hop = "edit" =>
        \A j \in (hk + 1)..Len(rows) :
            pre[j].hl_context = NewIncoming(j) => rows[j].revised = 0

\* C4 as the code has it: row k is always revised, and no row after k is
\* revised if its stored context equals the incoming context of the new
\* computation
C4_NoLaterRowRevisedWhenContextUnchanged ==
    hop = "edit" =>
        /\ rows[hk + 1].revised = 1
        /\ \A j \in (hk + 2)..Len(rows) :
              pre[j].hl_context = NewIncoming(j) => rows[j].revised = 0

\* an edit of row 1, inside a construct row 0 left open, that left the
\* context of row 2 as stored: row 1 was revised, row 2 was not
C4_Witness ==
    /\ hop = "edit"
    /\ hk = 1
    /\ rows[2].revised = 1
    /\ pre[3].hl_context = NewIncoming(3)
    /\ pre[3].hl_context # NORMAL
    /\ rows[3].revised = 0

\* C5: highlight returns the number n of rows it revised: the first n rows of
\* the slice were re-tokenized, in order, and the others were not; n is 0 for
\* an empty slice, at least 1 otherwise, and at most the length of the slice
C5_ReturnsRevisedCount ==
    /\ \A j \in 1..Len(rows) :
          rows[j].revised = (IF hk < j /\ j <= hk + hlen THEN j - hk ELSE 0)
    /\ hlen <= Len(rows) - hk
    /\ (hk = Len(rows)) => hlen = 0
    /\ (hk < Len(rows)) => hlen >= 1

\* a call on rows[1..] revised row 1 and converged on row 2
C5_Witness ==
    /\ hop = "edit"
    /\ hk = 1
    /\ hlen = 1
    /\ rows[2].revised = 1
    /\ rows[3].revised = 0

(***************************************************************************)
(* Properties of the tokenizer, checked under SpecTok                      *)
(***************************************************************************)
RECURSIVE Openers(_, _)
\* the number of `/*` in text from position p on, when the text from there is
\* made of `/*` and of chars other than '/' and '*' only; -1 otherwise
Openers(text, p) ==
    IF p > Len(text) THEN 0
    ELSE IF text[p] = "/" /\ p < Len(text) /\ text[p + 1] = "*"
         THEN (IF Openers(text, p + 2) < 0 THEN -1 ELSE Openers(text, p + 2) + 1)
    ELSE IF text[p] \notin {"/", "*"} /\ p > 1 THEN Openers(text, p + 1)
    ELSE -1

RECURSIVE Closers(_, _)
\* the number of `*/` in text from position p on, when the text is made of `*/`
\* and blanks only and begins with `*/`; -1 otherwise
Closers(text, p) ==
    IF p > Len(text) THEN 0
    ELSE IF text[p] = "*" /\ p < Len(text) /\ text[p + 1] = "/"
         THEN (IF Closers(text, p + 2) < 0 THEN -1 ELSE Closers(text, p + 2) + 1)
    ELSE IF text[p] = " " /\ p > 1 THEN Closers(text, p + 1)
    ELSE -1

\* the one token spanning the whole of tk_text
Whole(kind) == <<[kind |-> kind, start |-> 0, end |-> str_len(tk_text)]>>

\* C6: a row that begins with `/*` and holds D unmatched openers is one open
\* block-comment token of depth D and leaves comment-depth-D as the context of
\* the next row; a row tokenized under comment-depth-D starts inside the
\* comment, and a row of D closers `*/` only closes it and leaves plain code
C6_NestedCommentAcrossRows ==
    /\ (tk_in = NORMAL /\ Openers(tk_text, 1) >= 1) =>
          /\ tk_tokens = Whole(KindOpen("BlockComment", TRUE, Openers(tk_text, 1)))
          /\ tk_out = Openers(tk_text, 1) * Shift(IN_COMMENT)
    /\ \A D \in 1..MaxTkDepth :
          tk_in = D * Shift(IN_COMMENT) =>
              /\ decode_context(tk_in) = Repeat(<<"/", "*">>, D)
              /\ tk_tokens # <<>>
              /\ tk_tokens[1].kind.k = "BlockComment"
              /\ tk_tokens[1].start = 0
              /\ tk_text = <<>> => tk_out = tk_in
              /\ Closers(tk_text, 1) = D =>
                    /\ tk_tokens = Whole(KindOpen("BlockComment", FALSE, 0))
                    /\ tk_out = NORMAL

\* the row `*/ */` tokenized in the depth-2 context that `/* /* inner` left
C6_Witness ==
    /\ tk_in = 2 * Shift(IN_COMMENT)
    /\ tk_text = <<"*", "/", " ", "*", "/">>
    /\ tk_tokens = Whole(KindOpen("BlockComment", FALSE, 0))
    /\ tk_out = NORMAL

RECURSIVE HashRun(_, _)
\* the number of consecutive '#' of text from position p on
HashRun(text, p) ==
    IF p <= Len(text) /\ text[p] = "#" THEN 1 + HashRun(text, p + 1) ELSE 0

\* text begins with the opener of a raw string: r, hashes, a quote
IsRawOpen(text) ==
    /\ Len(text) >= 2
    /\ text[1] = "r"
    /\ HashRun(text, 2) + 2 <= Len(text)
    /\ text[HashRun(text, 2) + 2] = "\""

\* position q of text holds a quote that is followed by n hashes
QuoteWithHashes(text, q, n) ==
    /\ q <= Len(text)
    /\ text[q] = "\""
    /\ \A j \in 1..n : q + j <= Len(text) /\ text[q + j] = "#"

\* the positions after the opener that close a raw string opened with n hashes
Closings(text, n) == {q \in (n + 3)..Len(text) : QuoteWithHashes(text, q, n)}

\* the least element of a non-empty set of numbers
Min(S) == CHOOSE q \in S : \A r \in S : q <= r

\* a raw string opened with N hashes ends at the first quote that is followed
\* by N hashes, and is open at the end of the row when there is none
RawStringClosing ==
    (tk_in = NORMAL /\ IsRawOpen(tk_text)) =>
        IF Closings(tk_text, HashRun(tk_text, 2)) = {}
        THEN /\ tk_tokens = Whole(KindOpen("RawStrLit", TRUE, HashRun(tk_text, 2)))
             /\ tk_out = (HashRun(tk_text, 2) + 1) * Shift(IN_RAW_STRING)
        ELSE tk_tokens[1] =
                [kind |-> KindOpen("RawStrLit", FALSE, HashRun(tk_text, 2)),
                 start |-> 0,
                 end |-> byte_offset(tk_text,
                             Min(Closings(tk_text, HashRun(tk_text, 2))) + HashRun(tk_text, 2))]

\* the row r##"a"#b"# is one raw string of two hashes, open at the end of the row
C7_Witness ==
    /\ tk_text = <<"r", "#", "#", "\"", "a", "\"", "#", "b", "\"", "#">>
    /\ tk_tokens = Whole(KindOpen("RawStrLit", TRUE, 2))
    /\ tk_out = 3 * Shift(IN_RAW_STRING)

\* the row r##"a"#b"## is one closed raw string of two hashes
ClosedExample ==
    tk_text = <<"r", "#", "#", "\"", "a", "\"", "#", "b", "\"", "#", "#">> =>
        /\ tk_tokens = Whole(KindOpen("RawStrLit", FALSE, 2))
        /\ tk_out = NORMAL

\* C7: a raw string opened with N hashes is closed only by a quote followed by
\* N hashes: a quote followed by fewer hashes does not close it, r##"a"#b"## is
\* one closed raw string of two hashes and r##"a"#b"# is one open raw string
C7_RawStringDelimiters == RawStringClosing /\ ClosedExample

(***************************************************************************)
(* Properties of the rows, checked under SpecRow                           *)
(***************************************************************************)
\* the display columns of one char that begins at column w
Columns(ch, w) ==
    CASE ch = "\t" -> (w \div 4 + 1) * 4 - w
      [] ch = ZW -> 0
      [] ch = WIDE -> 2
      [] OTHER -> 1

RECURSIVE RenderWidth(_, _)
\* the display columns of the first n chars of s
RenderWidth(s, n) ==
    IF n = 0 THEN 0
    ELSE RenderWidth(s, n - 1) + Columns(s[n], RenderWidth(s, n - 1))

RECURSIVE RenderBytes(_, _)
\* the bytes of the rendering of the first n chars of s
RenderBytes(s, n) ==
    IF n = 0 THEN 0
    ELSE RenderBytes(s, n - 1) +
         (IF s[n] = "\t" THEN Columns(s[n], RenderWidth(s, n - 1)) ELSE len_utf8(s[n]))

Last(v) == v[Len(v)]

\* C8: after Row::new and after every operation, the tables are those of a
\* fresh row of the current string: cx_to_rx and cx_to_idx have one entry per
\* char and a sentinel, rx_to_cx and rx_to_idx one entry per display column and
\* a sentinel, the sentinels are the render width, the byte length of the
\* string, the char count and the byte length of the render, and max_cx and
\* max_rx are the char count and the render width
C8_TablesDescribeString ==
    /\ row = Row_new(row.string)
    /\ Len(row.cx_to_rx) = Len(row.string) + 1
    /\ Len(row.cx_to_idx) = Len(row.string) + 1
    /\ Len(row.rx_to_cx) = RenderWidth(row.string, Len(row.string)) + 1
    /\ Len(row.rx_to_idx) = RenderWidth(row.string, Len(row.string)) + 1
    /\ Last(row.cx_to_rx) = RenderWidth(row.string, Len(row.string))
    /\ Last(row.cx_to_idx) = str_len(row.string)
    /\ Last(row.rx_to_cx) = Len(row.string)
    /\ Last(row.rx_to_idx) = RenderBytes(row.string, Len(row.string))
    /\ str_len(row.render) = RenderBytes(row.string, Len(row.string))
    /\ max_cx(row) = Len(row.string)
    /\ max_rx(row) = RenderWidth(row.string, Len(row.string))

\* remove_str has left a wide char and a tab in a row that held more
C8_Witness ==
    /\ rop = "remove_str"
    /\ row.string = <<WIDE, "\t">>
    /\ row.cx_to_rx = <<0, 2, 4>>
    /\ row.cx_to_idx = <<0, 3, 4>>
    /\ row.rx_to_cx = <<0, 0, 1, 1, 2>>
    /\ row.rx_to_idx = <<0, 0, 3, 4, 5>>

\* C9: a tab that begins at display column r takes 4 - (r mod 4) columns,
\* between 1 and 4, each one space of the render, and the char after it begins
\* at a multiple of 4; a lone tab takes 4 columns, a tab at column 5 takes 3
C9_TabExpansion ==
    /\ \A cx \in 0..(Len(row.string) - 1) :
          row.string[cx + 1] = "\t" =>
              /\ get(row.cx_to_rx, cx + 1) - get(row.cx_to_rx, cx)
                    = 4 - (get(row.cx_to_rx, cx) % 4)
              /\ get(row.cx_to_rx, cx + 1) - get(row.cx_to_rx, cx) \in 1..4
              /\ get(row.cx_to_rx, cx + 1) % 4 = 0
              /\ get(row.cx_to_rx, cx) = 5 => get(row.cx_to_rx, cx + 1) = 8
              /\ \A rx \in get(row.cx_to_rx, cx)..(get(row.cx_to_rx, cx + 1) - 1) :
                    /\ get(row.rx_to_cx, rx) = cx
                    /\ get(row.rx_to_idx, rx)
                          = get(row.rx_to_idx, get(row.cx_to_rx, cx)) + rx - get(row.cx_to_rx, cx)
                    /\ row.render[char_pos(row.render, get(row.rx_to_idx, rx)) + 1] = " "
    /\ row.string = <<"\t">> => (max_rx(row) = 4 /\ row.render = <<" ", " ", " ", " ">>)

\* a tab inserted at display column 5 takes the columns 5, 6 and 7
C9_Witness ==
    /\ rop = "insert"
    /\ row.string = <<WIDE, WIDE, "a", "\t">>
    /\ row.cx_to_rx = <<0, 2, 4, 5, 8>>
    /\ row.render = <<WIDE, WIDE, "a", " ", " ", " ">>

\* the char at logical index c takes no display column
IsZeroWidth(r, c) ==
    c < Len(r.string) /\ r.string[c + 1] # "\t" /\ width(r.string[c + 1]) = 0

\* c begins a run of zero-width chars
StartsZeroWidthRun(r, c) ==
    IsZeroWidth(r, c) /\ (c = 0 \/ ~IsZeroWidth(r, c - 1))

\* the first logical index from c on that is not a zero-width char
NextWithColumn(r, c) ==
    Min({d \in c..Len(r.string) : ~IsZeroWidth(r, d)})

\* C10 as stated: the round trip returns c for every c of 0..=max_cx that
\* does not begin a run of zero-width chars, a zero-width char that follows
\* another included
C10_RoundTripExceptRunStart ==
    \A c \in 0..max_cx(row) :
        ~StartsZeroWidthRun(row, c) => get(row.rx_to_cx, get(row.cx_to_rx, c)) = c

\* C10: the round trip returns c for every c of 0..=max_cx that is not a
\* zero-width char (a tab, a wide char, max_cx itself), and for a zero-width
\* char it returns the first index after it that is not one
C10_RoundTripExceptZeroWidth ==
    \A c \in 0..max_cx(row) :
        /\ ~IsZeroWidth(row, c) => get(row.rx_to_cx, get(row.cx_to_rx, c)) = c
        /\ IsZeroWidth(row, c) =>
              get(row.rx_to_cx, get(row.cx_to_rx, c)) = NextWithColumn(row, c)

\* a row of a tab, a wide char and two zero-width chars: the second
\* zero-width char maps to the column after the wide char and back to max_cx
C10_Witness ==
    /\ rop = "push_str"
    /\ row.string = <<"\t", WIDE, ZW, ZW>>
    /\ get(row.cx_to_rx, 1) = 4
    /\ get(row.rx_to_cx, get(row.cx_to_rx, 1)) = 1
    /\ ~StartsZeroWidthRun(row, 3)
    /\ get(row.rx_to_cx, get(row.cx_to_rx, 3)) = 4

\* the chars that take one display column and are rendered as they are
IsPlain(ch) == ch \notin {"\t", WIDE, ZW}

\* C11: in a row without tabs, wide chars and zero-width chars the logical
\* index and the display column are the same number in both directions, and
\* the render is the text
C11_PlainRowIdentity ==
    (\A i \in 1..Len(row.string) : IsPlain(row.string[i])) =>
        /\ \A c \in 0..max_cx(row) : get(row.cx_to_rx, c) = c
        /\ \A r \in 0..max_rx(row) : get(row.rx_to_cx, r) = r
        /\ max_rx(row) = max_cx(row)
        /\ row.render = row.string

\* a plain char inserted into a plain row
C11_Witness ==
    /\ rop = "insert"
    /\ row.string = <<"a", "a", "a">>
    /\ row.cx_to_rx = <<0, 1, 2, 3>>
    /\ row.rx_to_cx = <<0, 1, 2, 3>>
    /\ row.render = <<"a", "a", "a">>

\* the zero-width char at logical index c has no entry in rx_to_cx and adds no
\* display column to rx_to_idx
NoColumnOf(c) ==
    /\ \A r \in 0..(max_rx(row) - 1) : get(row.rx_to_cx, r) # c
    /\ get(row.cx_to_rx, c + 1) = get(row.cx_to_rx, c)

\* C12 as stated: a zero-width char has no display column, and cx_to_rx of
\* it is the column at which the preceding char begins
C12_ZeroWidthAtPrecedingColumn ==
    \A c \in 0..(Len(row.string) - 1) :
        row.string[c + 1] = ZW =>
            /\ NoColumnOf(c)
            /\ c > 0 => get(row.cx_to_rx, c) = get(row.cx_to_rx, c - 1)

\* C12: a zero-width char has no display column; cx_to_rx of it is the column
\* at which the preceding char ends (0 for the first char of the row), and its
\* bytes of the render lie before the byte at which that column begins, with
\* the bytes of the preceding char
C12_ZeroWidthAfterPrecedingChar ==
    \A c \in 0..(Len(row.string) - 1) :
        row.string[c + 1] = ZW =>
            /\ NoColumnOf(c)
            /\ get(row.cx_to_rx, c) = RenderWidth(row.string, c)
            /\ c > 0 => get(row.cx_to_rx, c)
                          = get(row.cx_to_rx, c - 1)
                            + Columns(row.string[c], get(row.cx_to_rx, c - 1))
            /\ get(row.rx_to_idx, get(row.cx_to_rx, c))
                  = RenderBytes(row.string, NextWithColumn(row, c))
            /\ RenderBytes(row.string, c + 1) <= get(row.rx_to_idx, get(row.cx_to_rx, c))

\* a combining accent pushed after a wide char: it maps to column 2, where the
\* wide char ends, and the wide char begins at column 0
C12_Witness ==
    /\ rop = "push_str"
    /\ row.string = <<WIDE, ZW, "a">>
    /\ row.cx_to_rx = <<0, 2, 2, 3>>
    /\ row.rx_to_cx = <<0, 0, 2, 3>>
    /\ row.rx_to_idx = <<0, 0, 5, 6>>

(***************************************************************************)
(* Properties of Row::draw, checked under SpecDraw                         *)
(***************************************************************************)
\* the logical indices of the width-2 glyphs of the row
Glyphs == {c \in 0..(Len(row.string) - 1) : row.string[c + 1] = WIDE}

\* both columns of the glyph at c lie in the window of the last draw call
Inside(c) ==
    /\ draw_coloff <= get(row.cx_to_rx, c)
    /\ get(row.cx_to_rx, c) + 2 <= draw_coloff + draw_width

\* the glyph at c has its second column only in the window
TornLeft(c) == get(row.cx_to_rx, c) + 1 = draw_coloff

\* the glyph at c has its first column only in the window
TornRight(c) == get(row.cx_to_rx, c) + 1 = draw_coloff + draw_width

\* the number of entries of the sequence v that are x
Count(v, x) == Cardinality({i \in 1..Len(v) : v[i] = x})

\* the last draw call had a window that begins inside the row
Drawn == draw_width >= 1 /\ draw_coloff < max_rx(row)

\* C13: draw writes a width-2 glyph only when both its columns are in the
\* window [coloff, coloff + width), and then whole; a glyph that has one column
\* only in the window is not written, and a marker is written at that edge
C13_NoSplitGlyph ==
    Drawn =>
        /\ ~draw_fault
        /\ Count(canvas, WIDE) = Cardinality({c \in Glyphs : Inside(c)})
        /\ Count(canvas, MARKER)
              = Cardinality({c \in Glyphs : TornLeft(c)})
                + Cardinality({c \in Glyphs : TornRight(c)})
        /\ (\E c \in Glyphs : TornLeft(c)) => canvas[1] = MARKER
        /\ (\E c \in Glyphs : TornRight(c)) => canvas[Len(canvas)] = MARKER
        /\ (row.string = <<WIDE, WIDE, WIDE>> /\ draw_coloff = 1 /\ draw_width = 2)
              => canvas = <<MARKER, MARKER>>

\* three wide glyphs drawn from column 1 on in a window of 4 columns: the
\* first and the third are torn, the second is written
C13_Witness ==
    /\ row.string = <<WIDE, WIDE, WIDE>>
    /\ draw_coloff = 1
    /\ draw_width = 4
    /\ canvas = <<MARKER, WIDE, MARKER>>

(***************************************************************************)
(* Properties of the faces, checked under SpecFace                         *)
(***************************************************************************)
\* the tokens of the one row of the buffer
RowTokens == Tokens(rows[1].string, decode_context(rows[1].hl_context))

\* every byte of the span of the i-th of the tokens has the face
SpanHas(toks, i, face) ==
    \A b \in toks[i].start..(toks[i].end - 1) : rows[1].faces[b + 1] = face

\* the kind of the i-th of the tokens, "" when there is none
KindOf(toks, i) == IF i \in 1..Len(toks) THEN toks[i].kind.k ELSE ""

\* an identifier after fn is a function, after let, for or mut a variable
FaceByLookback(toks) ==
    \A i \in 1..Len(toks) :
        KindOf(toks, i) \in {"Ident", "RawIdent"} =>
            /\ toks[i].start < toks[i].end
            /\ KindOf(toks, i - 1) = "Fn" => SpanHas(toks, i, "Function")
            /\ KindOf(toks, i - 1) \in {"Let", "For", "Mut"} => SpanHas(toks, i, "Variable")

\* C14: an identifier whose previous token is fn has the function face on
\* every byte, an identifier whose previous token is let, for or mut has the
\* variable face on every byte; foo of fn foo() {} is a function, bar of
\* let bar = 1; is a variable
C14_FaceByLookback ==
    LET toks == RowTokens
    IN /\ FaceByLookback(toks)
       /\ rows[1].string = <<"f", "n", " ", "f", "o", "o", "(", ")", " ", "{", "}">> =>
             /\ KindOf(toks, 1) = "Fn" /\ KindOf(toks, 2) = "Ident"
             /\ SubSeq(rows[1].faces, 4, 6) = <<"Function", "Function", "Function">>
       /\ rows[1].string = <<"l", "e", "t", " ", "b", "a", "r", " ", "=", " ", "1", ";">> =>
             /\ KindOf(toks, 1) = "Let" /\ KindOf(toks, 2) = "Ident"
             /\ SubSeq(rows[1].faces, 5, 7) = <<"Variable", "Variable", "Variable">>

\* let foo ( : the lookback to let decides, the paren that follows does not
C14_Witness ==
    /\ hop = "edit"
    /\ rows[1].string = <<"l", "e", "t", " ", "f", "o", "o", " ", "(">>
    /\ rows[1].faces = <<"Keyword", "Keyword", "Keyword", "Default",
                         "Variable", "Variable", "Variable", "Default", "Default">>

\* the kinds of the punctuation tokens
PunctKinds == {"Punct", "Paren", "Bang", "Colon", "ColonColon", "Question"}

\* the keywords that decide the face of the identifier after them
LookbackKinds == {"Fn", "For", "Let", "Mut", "Mod"}

\* a plain identifier with no fn, for, let, mut or mod before it and no !, (
\* or :: after it has the default face, and so has every punctuation token
DefaultOtherwise(toks) ==
    \A i \in 1..Len(toks) :
        /\ (/\ KindOf(toks, i) = "Ident"
            /\ KindOf(toks, i - 1) \notin LookbackKinds
            /\ KindOf(toks, i + 1) \notin {"Bang", "Paren", "ColonColon"})
              => SpanHas(toks, i, "Default")
        /\ KindOf(toks, i) \in PunctKinds => SpanHas(toks, i, "Default")

\* C19 as stated: the default face for every identifier outside the rules it
\* lists and for every punctuation token
C19_DefaultOtherwise == DefaultOtherwise(RowTokens)

\* the default face for an identifier outside the rules, a single colon after
\* it included, and for the punctuation but the question mark and the bang of a
\* macro
DefaultButColonQuestionBang(toks) ==
    \A i \in 1..Len(toks) :
        /\ (/\ KindOf(toks, i) \in {"Ident", "RawIdent"}
            /\ KindOf(toks, i - 1) \notin LookbackKinds)
              => /\ KindOf(toks, i + 1) \notin {"Bang", "Paren", "ColonColon", "Colon"}
                       => SpanHas(toks, i, "Default")
                 /\ KindOf(toks, i + 1) = "Colon" => SpanHas(toks, i, "Variable")
        /\ KindOf(toks, i) \in PunctKinds \ {"Question", "Bang"}
              => SpanHas(toks, i, "Default")
        /\ KindOf(toks, i) = "Question" => SpanHas(toks, i, "Macro")
        /\ KindOf(toks, i) = "Bang"
              => SpanHas(toks, i, IF KindOf(toks, i - 1) = "Ident" THEN "Macro" ELSE "Default")

\* C19: an identifier with no fn, for, let, mut or mod before it and no !, (,
\* :: or : after it has the default face; followed by a single colon it is a
\* variable; every punctuation token has the default face but the question
\* mark, which has the macro face, and the bang after a plain identifier, which
\* has it too
C19_DefaultButColonQuestionBang == DefaultButColonQuestionBang(RowTokens)

\* foo : ?  is a variable, a colon with the default face and a question mark
\* with the macro face
C19_Witness ==
    /\ hop = "edit"
    /\ rows[1].string = <<"f", "o", "o", " ", ":", " ", "?">>
    /\ rows[1].faces = <<"Variable", "Variable", "Variable", "Default",
                         "Default", "Default", "Macro">>

(***************************************************************************)
(* Properties of Syntax::detect, checked under SpecDetect                  *)
(***************************************************************************)
\* the last three chars of the name are .rs
IsRustName(s) ==
    /\ Len(s) >= 3
    /\ s[Len(s) - 2] = "."
    /\ s[Len(s) - 1] = "r"
    /\ s[Len(s)] = "s"

\* C15: the highlighter selected is the Rust one exactly when a file name is
\* given and ends with .rs, and the plain one for every other name and for no
\* name; the same name always selects the same highlighter
C15_DetectBySuffix ==
    /\ syntax = "Rust" <=> (filename.some /\ IsRustName(filename.s))
    /\ syntax = "Plain" <=> ~(filename.some /\ IsRustName(filename.s))
    /\ syntax = detect(filename)

\* the name s.rs selects the Rust highlighter
C15_Witness ==
    /\ filename = Some(<<"s", ".", "r", "s">>)
    /\ syntax = "Rust"

(***************************************************************************)
(* Properties of the contexts, checked under SpecCtx                       *)
(***************************************************************************)
\* the constructs a row can leave open, with every hash count and depth of
\* the claims
OpenKinds ==
    { KindOpen("Attribute", TRUE, 0), KindOpen("StrLit", TRUE, 0) }
    \cup { KindOpen("RawStrLit", TRUE, n) : n \in 0..255 }
    \cup { KindOpen("BlockComment", TRUE, d) : d \in 1..255 }

\* C16 as stated: a blank row tokenized under the context of an open
\* attribute, string, raw string of 0..=255 hashes or block comment of depth
\* 1..=255 is one open token of the same kind with the same count, its outgoing
\* context is its incoming one, and no other construct has the same context
C16_ContextRoundTrip ==
    (tk_prev \in OpenKinds /\ tk_text \in BlankTexts) =>
        /\ tk_in = encode_context(tk_prev)
        /\ Len(tk_tokens) = 1
        /\ tk_tokens[1].kind = tk_prev
        /\ tk_out = tk_in
        /\ \A kind \in OpenKinds : encode_context(kind) = tk_in => kind = tk_prev

\* the last token of the current row
LastKind == KindAt(tk_tokens, Len(tk_tokens))

\* the row leaves an attribute, a string, a raw string or a block comment open
LeavesOpen == LastKind.k \in {"Attribute", "StrLit", "RawStrLit", "BlockComment"} /\ LastKind.open

\* C17 as stated: the outgoing context of a row is the encoding of its last
\* token when that token is an open attribute, string, raw string or block
\* comment and NORMAL otherwise, and it is never UNDEFINED
C17_OutgoingContext ==
    /\ LeavesOpen =>
          tk_out = CASE LastKind.k = "Attribute" -> IN_ATTRIBUTE
                     [] LastKind.k = "StrLit" -> IN_STRING
                     [] LastKind.k = "RawStrLit" -> (LastKind.n + 1) * 256
                     [] LastKind.k = "BlockComment" -> LastKind.n * 65536
    /\ ~LeavesOpen => tk_out = NORMAL
    /\ tk_out # UNDEFINED

(***************************************************************************)
(* The first row of a highlight call, checked under SpecHl                 *)
(***************************************************************************)
\* the context the first row of the last call was tokenized under
FirstContext ==
    IF pre[hk + 1].hl_context = UNDEFINED THEN NORMAL ELSE pre[hk + 1].hl_context

\* C18: the first row of the slice of a highlight call is always processed;
\* when its hl_context was UNDEFINED it becomes NORMAL and the row is tokenized
\* with an empty prefix, otherwise its hl_context stays as stored and the row
\* is tokenized with the prefix of that context
C18_FirstRowOfCall ==
    hk < Len(rows) =>
        /\ rows[hk + 1].revised = 1
        /\ hlen >= 1
        /\ rows[hk + 1].hl_context = FirstContext
        /\ pre[hk + 1].hl_context = UNDEFINED =>
              /\ rows[hk + 1].hl_context = NORMAL
              /\ decode_context(rows[hk + 1].hl_context) = <<>>
        /\ pre[hk + 1].hl_context # UNDEFINED =>
              rows[hk + 1].hl_context = pre[hk + 1].hl_context
        /\ rows[hk + 1].faces
              = faces_of(Tokens(rows[hk + 1].string, decode_context(FirstContext)),
                         str_len(rows[hk + 1].string))

\* row 1 lies in a block comment and is edited: the call on rows[1..] keeps
\* its context and colours the new text as a comment
C18_Witness ==
    /\ hop = "edit"
    /\ hk = 1
    /\ pre[2].hl_context = Shift(IN_COMMENT)
    /\ rows[2].hl_context = Shift(IN_COMMENT)
    /\ rows[2].string = <<"a", "(">>
    /\ rows[2].faces = <<"Comment", "Comment">>
    /\ rows[2].revised = 1

(***************************************************************************)
(* Quitting, checked under SpecEd                                          *)
(***************************************************************************)
Enter == {Ctrl(byte("j")), Ctrl(byte("m"))}

\* the answers that confirm the quit
Confirming == {<<>>, <<"y">>, <<"Y">>}

\* a step of process_keypress that returned Ok
Pressed == pc = "read" /\ pc' \in {"refresh", "done"}

\* the minibuffer after the quit prompt was answered with the chars of input
RECURSIVE Answered(_)
Answered(input) ==
    IF input = <<>> THEN set_prompt(Minibuffer_new, QUIT_WITHOUT_SAVING)
    ELSE Minibuffer_process_keypress(Answered(SubSeq(input, 1, Len(input) - 1)),
                                     Char(input[Len(input)]))

\* what Enter does to each answer of up to two chars
AnswerDecides ==
    \A input \in BoundedSeqs({"y", "Y", "n", " "}, 2), k \in Enter :
        /\ get_input(Answered(input)).s = input
        /\ process_quit([modified |-> TRUE, filename |-> None], Answered(input), k).state
              = IF input \in Confirming THEN "Quitted" ELSE "Default"

\* the state becomes Quitted by Ctrl-Q on an unmodified buffer or by Enter
\* on a confirming answer only
QuitsOnlyWhenAllowed ==
    (state # "Quitted" /\ state' = "Quitted") =>
        \/ state = "Default" /\ key' = Ctrl(byte("q")) /\ ~buffer.modified
        \/ /\ state = "Quit"
           /\ key' \in Enter
           /\ get_input(minibuffer).s \in Confirming

\* the quit prompt is left for Default by Ctrl-G and by every answer that
\* does not confirm, whatever the answer, and is entered by Ctrl-Q on a
\* modified buffer only
PromptSteps ==
    /\ (Pressed /\ state = "Quit" /\ key' = Ctrl(byte("g"))) => state' = "Default"
    /\ (Pressed /\ state = "Quit" /\ key' \in Enter
           /\ get_input(minibuffer).s \notin Confirming) => state' = "Default"
    /\ (state # "Quit" /\ state' = "Quit") =>
           state = "Default" /\ key' = Ctrl(byte("q")) /\ buffer.modified
    /\ (Pressed /\ state = "Quit") => buffer' = buffer
    /\ (Pressed /\ state = "Quit" /\ key' \in Enter) => AnswerDecides

\* a modified buffer is quit from the quit prompt only
QuitThroughPrompt ==
    /\ (state = "Quitted" /\ buffer.modified) => prev_state = "Quit" /\ key \in Enter
    /\ (state = "Quitted" /\ prev_state = "Default") => key = Ctrl(byte("q"))
    /\ state = "Quitted" => prev_state \in {"Default", "Quit"}

\* C20: the state becomes Quitted only by Ctrl-Q in Default while the buffer
\* is unmodified, or by Enter (Ctrl-J, Ctrl-M) in Quit with an input that is
\* empty or y in either case; a modified buffer is never quit without the
\* quit prompt, and Ctrl-G or any other answer returns to Default
C20_QuitConfirmation ==
    /\ []QuitThroughPrompt
    /\ [][QuitsOnlyWhenAllowed /\ PromptSteps]_vars

\* a modified buffer was quit by Enter on the empty answer of the quit prompt
C20_Witness ==
    /\ state = "Quitted"
    /\ buffer.modified
    /\ prev_state = "Quit"
    /\ key = Ctrl(byte("m"))
    /\ minibuffer.row.string = QUIT_WITHOUT_SAVING
    /\ pc = "done"

(***************************************************************************)
(* The end of looop, checked under SpecEd                                  *)
(***************************************************************************)
\* looop is at no call of refresh_screen, read_key or process_keypress while
\* the state is Quitted, and process_keypress did not panic
NotCalledWhenQuitted ==
    /\ state = "Quitted" => pc = "done"
    /\ pc \in {"refresh", "read"} => state # "Quitted"
    /\ ~panicked
    /\ pc # "panicked"

\* Quitted is never left, and looop takes no step after it
QuittedIsFinal ==
    state = "Quitted" => (state' = "Quitted" /\ pc' = "done")

\* C21: the unreachable!() arm of process_keypress is never executed:
\* process_keypress is never called while the state is Quitted, because looop
\* exits right after the keypress that sets Quitted, without a refresh of the
\* screen or a read of another key, and Quitted is never left
C21_UnreachableNeverExecuted ==
    /\ []NotCalledWhenQuitted
    /\ [][QuittedIsFinal]_vars

\* looop ended after Ctrl-Q on an unmodified buffer
C21_Witness ==
    /\ state = "Quitted"
    /\ pc = "done"
    /\ prev_state = "Default"
    /\ key = Ctrl(byte("q"))
    /\ ~buffer.modified
    /\ ~panicked

(***************************************************************************)
(* The prompt and the window of the minibuffer, checked under SpecMb       *)
(***************************************************************************)
\* the first n chars of the row of the minibuffer
Prefix(m, n) == SubSeq(m.row.string, 1, n)

\* the row is a prompt followed by the input, and get_input returns the input
PromptKept ==
    /\ \E p \in Prompts :
          /\ minibuffer.prompt_len = str_len(p)
          /\ Prefix(minibuffer, Len(p)) = p
          /\ ~get_input(minibuffer).fault
          /\ p \o get_input(minibuffer).s = minibuffer.row.string
    /\ minibuffer.prompt_len <= str_len(minibuffer.row.string)

\* a call of process_keypress changes neither prompt_len nor the chars before
\* it, and changes nothing of the row while the cursor is inside the prompt
PromptUntouched ==
    pc' = "process_keypress" =>
        /\ minibuffer'.prompt_len = minibuffer.prompt_len
        /\ Prefix(minibuffer', minibuffer.prompt_len) = Prefix(minibuffer, minibuffer.prompt_len)
        /\ minibuffer.cursor_x < minibuffer.prompt_len => minibuffer'.row = minibuffer.row

C24_DrawWellFormed ==
    /\ ~draw_fault
    /\ draw_coloff >= max_rx(row) => canvas = <<>>

\* the columns an entry of the canvas takes on the screen
ColumnsOf(x) == IF x = MARKER THEN 1 ELSE width(x)

\* the columns the last draw call painted
Painted ==
    Cardinality({ij \in (1..Len(canvas)) \X (1..2) : ij[2] <= ColumnsOf(canvas[ij[1]])})

\* C25: draw never paints more than width columns: for every row, coloff and
\* width >= 1 the display width of the slice written plus one column for each
\* marker written is min(coloff + width, max_rx) - coloff, which is at most
\* width
C25_PaintsWindow ==
    Drawn =>
        /\ ~draw_fault
        /\ Painted = cmp_min(draw_coloff + draw_width, max_rx(row)) - draw_coloff
        /\ Painted <= draw_width

\* a window of 2 columns that ends inside the first wide glyph: one char and
\* one marker are written
C25_Witness ==
    /\ row.string = <<"a", WIDE, WIDE>>
    /\ draw_coloff = 0
    /\ draw_width = 2
    /\ canvas = <<"a", MARKER>>
    /\ Painted = 2

(***************************************************************************)
(* The spans of the tokens, checked under SpecSpan                         *)
(***************************************************************************)
\* the byte offsets of the char boundaries of text
Boundaries(text) == {byte_offset(text, c) : c \in 0..Len(text)}

\* the spans of toks lie in text, on char boundaries, one after the other
SpansInOrder(toks, text) ==
    \A i \in 1..Len(toks) :
        /\ toks[i].start <= toks[i].end
        /\ toks[i].end <= str_len(text)
        /\ toks[i].start \in Boundaries(text)
        /\ toks[i].end \in Boundaries(text)
        /\ i > 1 => toks[i - 1].end <= toks[i].start

\* the token that begins in the prefix is the first one and starts at 0;
\* every other token holds at least one char of the text, so that there are
\* no more tokens than chars
SpansProgress(toks, text, context) ==
    /\ (context # <<>> /\ Len(toks) >= 1) => toks[1].start = 0
    /\ \A i \in 1..Len(toks) : (i > 1 \/ context = <<>>) => toks[i].start < toks[i].end
    /\ Len(toks) <= Len(text) + 1

\* the writes faces[start..end] of highlight_row fall in the faces of the row
WritesInFaces(toks, text) ==
    \A i \in 1..Len(toks) :
        \A j \in toks[i].start..(toks[i].end - 1) : j + 1 \in 1..Len(faces_of(toks, str_len(text)))

\* C26: for every text and every context encode_context produces the
\* tokenizer ends, each token has start <= end <= text.len() on char
\* boundaries, consecutive tokens do not overlap, and a token continued from
\* the prefix starts at offset 0; the writes faces[start..end] of
\* highlight_row stay inside the faces of the row
C26_TokenSpans ==
    /\ SpansInOrder(tk_tokens, tk_text)
    /\ SpansProgress(tk_tokens, tk_text, decode_context(tk_in))
    /\ WritesInFaces(tk_tokens, tk_text)

\* a row of a wide char, a comment closer and a wide char, tokenized inside a
\* block comment: the comment spans bytes 0..5 and the identifier bytes 5..8
C26_Witness ==
    /\ tk_in = Shift(IN_COMMENT)
    /\ tk_text = <<WIDE, "*", "/", WIDE>>
    /\ Len(tk_tokens) = 2
    /\ tk_tokens[1].start = 0
    /\ tk_tokens[1].end = 5
    /\ tk_tokens[2].start = 5
    /\ tk_tokens[2].end = 8

====
